---- MODULE Spec2Model ----
(***************************************************************************)
(* Profile persistence and HTTP layer of the inclusive travel agent:       *)
(*   inclusive_travel_agent/services/user_profile_service.py               *)
(*   inclusive_travel_agent/main.py                                        *)
(*   travel_concierge/models/user_profile.py                               *)
(*   travel_concierge/services/context_service.py                          *)
(* The document database is an external collaborator: every call against   *)
(* it either succeeds or throws, chosen nondeterministically.              *)
(***************************************************************************)
EXTENDS Integers, Sequences, FiniteSets, TLC

\* ------------------------------------------------------------------ bounds
\* number of uuid4 values create may draw
MaxUsers == 2
\* number of datetime.utcnow() readings in a run
MaxClock == 3
\* largest limit and offset passed to list
MaxLimit == 2
MaxOffset == 1
\* number of session ids the chat endpoint is called with
MaxSessions == 1
\* number of session objects session_service.create_session hands out
MaxObjects == 2

\* ------------------------------------------------------------ value domains
\* Optional[T]: None is the empty sequence, a present value v is <<v>>
None == << >>

Some(v) == << v >>

IsSet(o) == o # None

\* bool(x) of a Python str, list or dict, all modelled as sequences
Truthy(x) == x # << >>

\* BasicInfo(name, email, nationality, home_location); the str fields are
\* required by the model class but may be empty
BasicInfos ==
  { [name |-> "A", email |-> "a@b.com", nationality |-> "US", home_location |-> h] :
      h \in {"X", ""} }

\* TravelInterests(): every list defaults to the empty list
DefaultTravelInterests ==
  [preferred_destinations |-> << >>, travel_style |-> << >>,
   accommodation_preferences |-> << >>, activity_interests |-> << >>]

TravelInterestsValues ==
  { DefaultTravelInterests,
    [DefaultTravelInterests EXCEPT !.preferred_destinations = <<"Paris">>] }

\* AccessibilityProfile(): every list and the dict default to empty
DefaultAccessibilityProfile ==
  [mobility_needs |-> << >>, sensory_needs |-> << >>, cognitive_needs |-> << >>,
   assistance_preferences |-> << >>, mobility_aids |-> << >>,
   barrier_concerns |-> << >>]

AccessibilityProfileValues ==
  { DefaultAccessibilityProfile,
    [DefaultAccessibilityProfile EXCEPT !.mobility_needs = <<"wheelchair_accessible", "step_free_access">>],
    [DefaultAccessibilityProfile EXCEPT !.cognitive_needs = <<"quiet_spaces">>] }

\* UserPreferences(): communication_style defaults to detailed
DefaultUserPreferences == [communication_style |-> "detailed"]

UserPreferencesValues ==
  { DefaultUserPreferences, [communication_style |-> "brief"] }

Opt(S) == {None} \cup { Some(v) : v \in S }

\* CreateUserProfileRequest: basic_info required, the rest Optional
CreateUserProfileRequests ==
  [basic_info : BasicInfos,
   travel_interests : Opt(TravelInterestsValues),
   accessibility_profile : Opt(AccessibilityProfileValues),
   preferences : {None}]

Sections == {"basic_info", "travel_interests", "accessibility_profile", "preferences"}

\* UpdateUserProfileRequest: every section Optional
AllUpdateRequests ==
  [basic_info : Opt(BasicInfos),
   travel_interests : Opt(TravelInterestsValues),
   accessibility_profile : Opt(AccessibilityProfileValues),
   preferences : Opt(UserPreferencesValues)]

Present(request) == { s \in Sections : IsSet(request[s]) }

\* the requests the model submits: at most one section at a time, plus the
\* two-section request travel_interests + accessibility_profile
UpdateUserProfileRequests ==
  { r \in AllUpdateRequests :
      \/ Cardinality(Present(r)) <= 1
      \/ /\ Present(r) = {"travel_interests", "accessibility_profile"}
         /\ r.travel_interests = Some(DefaultTravelInterests) }

\* ------------------------------------------------------------------- state
\* concurrent update_user_profile coroutines
Workers == {1, 2}

VARIABLES
  db,      \* self.db: "firestore" (a client) or "none" (None)
  fs,      \* the documents of the user_profiles collection: user_id -> dict
  mem,     \* self._memory_store, an insertion-ordered dict: <<[k, v], ...>>
  now,     \* number of datetime.utcnow() readings so far
  nextId,  \* number of uuid4() values drawn so far, plus one
  pend,    \* per worker: an update_user_profile suspended after its read
  sessions,\* main.py sessions: session_id -> the session object registered
  states,  \* session.state of every session object created so far
  chat,    \* per worker: a chat handler suspended at one of its awaits
  last     \* the last completed call: arguments, result and HTTP answer

vars == << db, fs, mem, now, nextId, pend, sessions, states, chat, last >>

UserIds == 1..MaxUsers

\* the session objects create_session may hand out
SessionObjects == 1..MaxObjects

SessionIds == 1..MaxSessions

\* ---------------------------------------------------- dict and collection
\* d.update(u) on a dict d: keys of u overwrite, other keys stay
DictUpdate(d, u) ==
  [f \in DOMAIN d \cup DOMAIN u |-> IF f \in DOMAIN u THEN u[f] ELSE d[f]]

MemHas(m, k) == \E i \in 1..Len(m) : m[i].k = k

MemIndex(m, k) == CHOOSE i \in 1..Len(m) : m[i].k = k

\* m.get(k)
MemGet(m, k) == IF MemHas(m, k) THEN Some(m[MemIndex(m, k)].v) ELSE None

\* m[k] = v: a new key goes last, an existing key keeps its position
MemSet(m, k, v) ==
  IF MemHas(m, k)
    THEN [m EXCEPT ![MemIndex(m, k)] = [k |-> k, v |-> v]]
    ELSE Append(m, [k |-> k, v |-> v])

\* del m[k]
MemDel(m, k) ==
  LET i == MemIndex(m, k)
  IN  SubSeq(m, 1, i - 1) \o SubSeq(m, i + 1, Len(m))

\* list(m.values())
MemValues(m) == [i \in 1..Len(m) |-> m[i].v]

\* doc_ref.get(): exists / to_dict()
FsGet(f, k) == IF k \in DOMAIN f THEN Some(f[k]) ELSE None

\* doc_ref.set(data)
FsSet(f, k, v) == [x \in DOMAIN f \cup {k} |-> IF x = k THEN v ELSE f[x]]

\* doc_ref.delete()
FsDel(f, k) == [x \in DOMAIN f \ {k} |-> f[x]]

\* ------------------------------------------------------------ the service
\* variant: an empty memory store is taken as "not in use"
UseMemoryStoreWhenPopulated == db = "none" /\ mem # << >>

\* _use_memory_store()
UseMemoryStore == db = "none"

\* bool(s) of a Python str
TruthyStr(s) == s # ""

BasicComplete(b) ==
  /\ TruthyStr(b.name)
  /\ TruthyStr(b.email)
  /\ TruthyStr(b.nationality)
  /\ TruthyStr(b.home_location)

\* _is_profile_complete(request)
IsProfileComplete(request) ==
  LET basic_complete == BasicComplete(request.basic_info)
      interests_complete ==
        /\ IsSet(request.travel_interests)
        /\ \/ Truthy(request.travel_interests[1].preferred_destinations)
           \/ Truthy(request.travel_interests[1].travel_style)
           \/ Truthy(request.travel_interests[1].activity_interests)
      accessibility_complete ==
        /\ IsSet(request.accessibility_profile)
        /\ \/ Truthy(request.accessibility_profile[1].mobility_needs)
           \/ Truthy(request.accessibility_profile[1].sensory_needs)
           \/ Truthy(request.accessibility_profile[1].assistance_preferences)
  IN  basic_complete /\ (interests_complete \/ accessibility_complete)

\* variant: cognitive_needs counted among the accessibility information
IsProfileCompleteCountingCognitive(profile) ==
  /\ BasicComplete(profile.basic_info)
  /\ \/ Truthy(profile.travel_interests.preferred_destinations)
     \/ Truthy(profile.travel_interests.travel_style)
     \/ Truthy(profile.travel_interests.activity_interests)
     \/ Truthy(profile.accessibility_profile.mobility_needs)
     \/ Truthy(profile.accessibility_profile.sensory_needs)
     \/ Truthy(profile.accessibility_profile.cognitive_needs)
     \/ Truthy(profile.accessibility_profile.assistance_preferences)

\* _is_profile_complete_from_profile(profile)
IsProfileCompleteFromProfile(profile) ==
  LET basic_complete == BasicComplete(profile.basic_info)
      interests_complete ==
        \/ Truthy(profile.travel_interests.preferred_destinations)
        \/ Truthy(profile.travel_interests.travel_style)
        \/ Truthy(profile.travel_interests.activity_interests)
      accessibility_complete ==
        \/ Truthy(profile.accessibility_profile.mobility_needs)
        \/ Truthy(profile.accessibility_profile.sensory_needs)
        \/ Truthy(profile.accessibility_profile.assistance_preferences)
  IN  basic_complete /\ (interests_complete \/ accessibility_complete)

\* x or default
OrDefault(o, default) == IF IsSet(o) THEN o[1] ELSE default

\* the UserProfile built by create_user_profile
NewProfile(user_id, request, t) ==
  [user_id |-> user_id,
   basic_info |-> request.basic_info,
   travel_interests |-> OrDefault(request.travel_interests, DefaultTravelInterests),
   accessibility_profile |->
     OrDefault(request.accessibility_profile, DefaultAccessibilityProfile),
   preferences |-> OrDefault(request.preferences, DefaultUserPreferences),
   created_at |-> t,
   updated_at |-> t,
   last_active |-> None,
   profile_complete |-> IsProfileComplete(request),
   onboarding_completed |-> FALSE,
   travel_history |-> << >>,
   learned_preferences |-> << >>]

\* variant: a section the request omits is written with its default value,
\* as create_user_profile does
UpdateDataFillingDefaults(request, existing, t) ==
  LET written ==
        [basic_info |-> OrDefault(request.basic_info, existing.basic_info),
         travel_interests |->
           OrDefault(request.travel_interests, DefaultTravelInterests),
         accessibility_profile |->
           OrDefault(request.accessibility_profile, DefaultAccessibilityProfile),
         preferences |-> OrDefault(request.preferences, DefaultUserPreferences),
         updated_at |-> t]
  IN  written @@
        ("profile_complete" :>
           IsProfileCompleteFromProfile(DictUpdate(existing, written)))

\* the defaults of the sections made of lists
SectionDefaults ==
  [travel_interests |-> DefaultTravelInterests,
   accessibility_profile |-> DefaultAccessibilityProfile]

\* variant: inside a supplied section a sub-field left at its default keeps
\* the stored value
UpdateDataMergingSections(request, existing, t) ==
  LET supplied ==
        [s \in Present(request) |->
           IF s \in DOMAIN SectionDefaults
             THEN [f \in DOMAIN request[s][1] |->
                     IF request[s][1][f] = SectionDefaults[s][f]
                       THEN existing[s][f]
                       ELSE request[s][1][f]]
             ELSE request[s][1]]
      stamped == supplied @@ ("updated_at" :> t)
      relevant ==
        \/ IsSet(request.basic_info)
        \/ IsSet(request.travel_interests)
        \/ IsSet(request.accessibility_profile)
      temp_profile == DictUpdate(existing, stamped)
  IN  IF relevant
        THEN stamped @@ ("profile_complete" :> IsProfileCompleteFromProfile(temp_profile))
        ELSE stamped

\* variant: the update stamps created_at along with updated_at
UpdateDataStampingCreation(request, existing, t) ==
  LET supplied == [s \in Present(request) |-> request[s][1]]
      stamped == supplied @@ [updated_at |-> t, created_at |-> t]
      relevant ==
        \/ IsSet(request.basic_info)
        \/ IsSet(request.travel_interests)
        \/ IsSet(request.accessibility_profile)
      temp_profile == DictUpdate(existing, stamped)
  IN  IF relevant
        THEN stamped @@ ("profile_complete" :> IsProfileCompleteFromProfile(temp_profile))
        ELSE stamped

\* update_data of update_user_profile: the supplied sections, updated_at,
\* and profile_complete when a completeness-relevant section is supplied
UpdateData(request, existing, t) ==
  LET supplied == [s \in Present(request) |-> request[s][1]]
      stamped == supplied @@ ("updated_at" :> t)
      relevant ==
        \/ IsSet(request.basic_info)
        \/ IsSet(request.travel_interests)
        \/ IsSet(request.accessibility_profile)
      temp_profile == DictUpdate(existing, stamped)
  IN  IF relevant
        THEN stamped @@ ("profile_complete" :> IsProfileCompleteFromProfile(temp_profile))
        ELSE stamped

\* variant: the fallback forgets to keep the profile in the memory store
CreateOnFirestoreErrorNoStore(m, user_id, profile) ==
  [db |-> "none", mem |-> m, raised |-> FALSE]

\* variant: no inner try, the outer except turns the error into ValueError
CreateOnFirestoreErrorRaises(m, user_id, profile) ==
  [db |-> "firestore", mem |-> m, raised |-> TRUE]

\* variant: the profile is kept in the memory store and the error is raised
\* all the same
CreateOnFirestoreErrorStoresThenRaises(m, user_id, profile) ==
  [db |-> "none", mem |-> MemSet(m, user_id, profile), raised |-> TRUE]

\* the except branch around doc_ref.set in create_user_profile: fall back to
\* the memory store and keep the profile there
CreateOnFirestoreError(m, user_id, profile) ==
  [db |-> "none", mem |-> MemSet(m, user_id, profile), raised |-> FALSE]

\* all_profiles[offset:offset + limit]
Slice(all, offset, limit) ==
  LET from == offset + 1
      to == IF offset + limit < Len(all) THEN offset + limit ELSE Len(all)
  IN  IF from > to THEN << >> ELSE SubSeq(all, from, to)

\* order_by("created_at") over the documents of the collection
RECURSIVE OrderByCreatedAt(_)
OrderByCreatedAt(docs) ==
  IF docs = {} THEN << >>
  ELSE LET first == CHOOSE d \in docs :
                      \A e \in docs :
                        \/ d.created_at < e.created_at
                        \/ d.created_at = e.created_at /\ d.user_id <= e.user_id
       IN  << first >> \o OrderByCreatedAt(docs \ {first})

FsDocs(f) == { f[k] : k \in DOMAIN f }

\* the set of the entries of a list
Entries(list) == { list[i] : i \in 1..Len(list) }

\* variant: the two counts are numbers of distinct entries
CreateProfileSummaryCountingDistinct(profile) ==
  [user_id |-> profile.user_id,
   name |-> profile.basic_info.name,
   email |-> profile.basic_info.email,
   created_at |-> profile.created_at,
   last_active |-> profile.last_active,
   profile_complete |-> profile.profile_complete,
   accessibility_needs_count |->
     Cardinality(Entries(profile.accessibility_profile.mobility_needs)
                 \cup Entries(profile.accessibility_profile.sensory_needs)
                 \cup Entries(profile.accessibility_profile.cognitive_needs)),
   travel_interests_count |->
     Cardinality(Entries(profile.travel_interests.preferred_destinations)
                 \cup Entries(profile.travel_interests.activity_interests)
                 \cup Entries(profile.travel_interests.accommodation_preferences))]

\* _create_profile_summary(profile)
CreateProfileSummary(profile) ==
  [user_id |-> profile.user_id,
   name |-> profile.basic_info.name,
   email |-> profile.basic_info.email,
   created_at |-> profile.created_at,
   last_active |-> profile.last_active,
   profile_complete |-> profile.profile_complete,
   accessibility_needs_count |->
     Len(profile.accessibility_profile.mobility_needs
         \o profile.accessibility_profile.sensory_needs
         \o profile.accessibility_profile.cognitive_needs),
   travel_interests_count |->
     Len(profile.travel_interests.preferred_destinations
         \o profile.travel_interests.activity_interests
         \o profile.travel_interests.accommodation_preferences)]

Summaries(profiles) == [i \in 1..Len(profiles) |-> CreateProfileSummary(profiles[i])]

\* ----------------------------------------------------------- HTTP handlers
\* main.py: a falsy service result is answered 404, anything else 200
StatusOf(found) == IF found THEN 200 ELSE 404

\* main.py create_user_profile: ValueError is answered 400
CreateStatus(raised) == IF raised THEN 400 ELSE 200

Idle == [pc |-> "idle", uid |-> 0, request |-> None, existing |-> None]

\* a chat handler that is not running: its message and its locals
ChatIdle ==
  [pc |-> "idle", session_id |-> 0, user_id |-> None, session |-> 0,
   context_injected |-> FALSE]

NoCall ==
  [op |-> "none", uid |-> 0, request |-> None, profile |-> None, ok |-> FALSE,
   page |-> << >>, limit |-> 0, offset |-> 0, raised |-> FALSE,
   existed |-> FALSE, backend |-> FALSE, threw |-> FALSE, status |-> 0,
   found |-> FALSE, sid |-> 0, context |-> None, session |-> 0,
   injected |-> FALSE, completed |-> FALSE, body |-> None,
   replaced |-> FALSE, stale |-> FALSE]

\* what the store the service currently uses holds for user_id
Visible(user_id) == IF UseMemoryStore THEN MemGet(mem, user_id) ELSE FsGet(fs, user_id)

\* -------------------------------------------------------------------- Init
\* __init__: the memory store is empty; firestore.Client() either succeeds
\* or throws, which leaves self.db = None
Init ==
  /\ db \in {"firestore", "none"}
  /\ fs = << >>
  /\ mem = << >>
  /\ now = 0
  /\ nextId = 1
  /\ pend = [w \in Workers |-> Idle]
  /\ sessions = << >>
  /\ states = << >>
  /\ chat = [w \in Workers |-> ChatIdle]
  /\ last = NoCall

\* ----------------------------------------------------------------- actions
\* whether a backend call of this step raises: only a call that is made can
Throws == IF UseMemoryStore THEN {FALSE} ELSE BOOLEAN

\* variant: in memory mode a profile the memory store lacks is still looked
\* up among the Firestore documents
GetResultEitherStore(user_id, throws) ==
  IF UseMemoryStore
    THEN IF MemHas(mem, user_id) THEN MemGet(mem, user_id) ELSE FsGet(fs, user_id)
  ELSE IF throws THEN None
  ELSE FsGet(fs, user_id)

\* get_user_profile(user_id); throws: the backend read raises
GetResult(user_id, throws) ==
  IF UseMemoryStore THEN MemGet(mem, user_id)
  ELSE IF throws THEN None
  ELSE FsGet(fs, user_id)

\* POST /users -> create_user_profile(request)
CreateUserProfile(request) ==
  /\ nextId <= MaxUsers
  /\ now < MaxClock
  /\ LET user_id == nextId
         t == now + 1
         profile == NewProfile(user_id, request, t)
         call == [NoCall EXCEPT !.op = "create", !.uid = user_id]
     IN  /\ nextId' = nextId + 1
         /\ now' = t
         /\ IF UseMemoryStore
              THEN /\ mem' = MemSet(mem, user_id, profile)
                   /\ UNCHANGED << db, fs >>
                   /\ last' = [call EXCEPT !.profile = Some(profile),
                                           !.status = CreateStatus(FALSE)]
              ELSE \E throws \in Throws :
                     IF ~throws
                       THEN /\ fs' = FsSet(fs, user_id, profile)
                            /\ UNCHANGED << db, mem >>
                            /\ last' = [call EXCEPT !.profile = Some(profile),
                                                    !.backend = TRUE,
                                                    !.status = CreateStatus(FALSE)]
                       ELSE LET h == CreateOnFirestoreError(mem, user_id, profile)
                            IN  /\ db' = h.db
                                /\ mem' = h.mem
                                /\ UNCHANGED fs
                                /\ last' = [call EXCEPT
                                     !.profile = IF h.raised THEN None ELSE Some(profile),
                                     !.raised = h.raised,
                                     !.backend = TRUE,
                                     !.threw = TRUE,
                                     !.status = CreateStatus(h.raised)]
  /\ UNCHANGED << pend, sessions, states, chat >>

\* GET /users/{user_id} -> get_user_profile(user_id)
GetUserProfile(user_id) ==
  /\ \E throws \in Throws :
       LET profile == GetResult(user_id, throws)
       IN  last' = [NoCall EXCEPT !.op = "get", !.uid = user_id,
                                  !.profile = profile,
                                  !.found = IsSet(profile),
                                  !.existed = IsSet(Visible(user_id)),
                                  !.backend = ~UseMemoryStore,
                                  !.threw = ~UseMemoryStore /\ throws,
                                  !.status = StatusOf(IsSet(profile))]
  /\ UNCHANGED << db, fs, mem, now, nextId, pend, sessions, states, chat >>

\* variant: the merged snapshot is written back without the membership test
UpdateInMemoryUpsert(m, user_id, existing, update_data) ==
  MemSet(m, user_id, DictUpdate(existing, update_data))

\* variant: the record is replaced by the snapshot read earlier, merged with
\* the update
UpdateInMemoryWholeRecord(m, user_id, existing, update_data) ==
  IF MemHas(m, user_id)
    THEN MemSet(m, user_id, DictUpdate(existing, update_data))
    ELSE m

\* the memory-store branch of update_user_profile: update the stored dict
\* when the key is (still) there, else fall through
UpdateInMemory(m, user_id, existing, update_data) ==
  IF MemHas(m, user_id)
    THEN MemSet(m, user_id, DictUpdate(MemGet(m, user_id)[1], update_data))
    ELSE m

\* update_user_profile found no existing profile: return None
UpdateNotFound(user_id, request, throws) ==
  last' = [NoCall EXCEPT !.op = "update", !.uid = user_id,
                         !.request = Some(request),
                         !.existed = IsSet(Visible(user_id)),
                         !.backend = ~UseMemoryStore,
                         !.threw = ~UseMemoryStore /\ throws,
                         !.status = StatusOf(FALSE)]

\* update_user_profile from the computation of update_data to its return;
\* existing is the profile its get_user_profile returned
UpdateStore(user_id, request, existing) ==
  LET t == now + 1
      update_data == UpdateData(request, existing, t)
      call == [NoCall EXCEPT !.op = "update", !.uid = user_id,
                             !.request = Some(request),
                             !.found = TRUE,
                             !.existed = IsSet(Visible(user_id)),
                             !.stale = Visible(user_id) # Some(existing),
                             !.backend = ~UseMemoryStore]
  IN  /\ now < MaxClock
      /\ now' = t
      /\ IF UseMemoryStore
           THEN /\ mem' = UpdateInMemory(mem, user_id, existing, update_data)
                /\ last' = IF MemHas(mem, user_id)
                             THEN [call EXCEPT !.profile = MemGet(mem', user_id),
                                               !.status = StatusOf(TRUE)]
                             ELSE [call EXCEPT !.status = StatusOf(FALSE)]
                /\ UNCHANGED << db, fs >>
           ELSE \E throwsWrite \in Throws, throwsRead \in Throws :
                  IF throwsWrite \/ user_id \notin DOMAIN fs
                    THEN /\ last' = [call EXCEPT !.threw = throwsWrite,
                                                 !.status = StatusOf(FALSE)]
                         /\ UNCHANGED << db, fs, mem >>
                    ELSE /\ fs' = FsSet(fs, user_id, DictUpdate(fs[user_id], update_data))
                         /\ last' = [call EXCEPT
                              !.profile = IF throwsRead THEN None ELSE FsGet(fs', user_id),
                              !.threw = throwsRead,
                              !.status = StatusOf(~throwsRead)]
                         /\ UNCHANGED << db, mem >>

\* PUT /users/{user_id} -> update_user_profile(user_id, request), run without
\* another call in between
UpdateUserProfile(user_id, request) ==
  /\ \E throws \in Throws :
       LET existing == GetResult(user_id, throws)
       IN  IF IsSet(existing)
             THEN UpdateStore(user_id, request, existing[1])
             ELSE /\ UpdateNotFound(user_id, request, throws)
                  /\ UNCHANGED << db, fs, mem, now >>
  /\ UNCHANGED << nextId, pend, sessions, states, chat >>

\* update_user_profile up to the return of its await self.get_user_profile;
\* a profile that was found suspends the coroutine w
UpdateRead(w, user_id, request) ==
  /\ pend[w].pc = "idle"
  /\ \E throws \in Throws :
       LET existing == GetResult(user_id, throws)
       IN  IF IsSet(existing)
             THEN /\ pend' = [pend EXCEPT ![w] = [pc |-> "read", uid |-> user_id,
                                                  request |-> Some(request),
                                                  existing |-> existing]]
                  /\ last' = [NoCall EXCEPT !.op = "update_read", !.uid = user_id]
             ELSE /\ UNCHANGED pend
                  /\ UpdateNotFound(user_id, request, throws)
  /\ UNCHANGED << db, fs, mem, now, nextId, sessions, states, chat >>

\* the coroutine w resumes and runs update_user_profile to its return
UpdateWrite(w) ==
  /\ pend[w].pc = "read"
  /\ UpdateStore(pend[w].uid, pend[w].request[1], pend[w].existing[1])
  /\ pend' = [pend EXCEPT ![w] = Idle]
  /\ UNCHANGED << nextId, sessions, states, chat >>

\* DELETE /users/{user_id} -> delete_user_profile(user_id)
DeleteUserProfile(user_id) ==
  /\ LET call == [NoCall EXCEPT !.op = "delete", !.uid = user_id,
                                !.existed = IsSet(Visible(user_id)),
                                !.backend = ~UseMemoryStore]
     IN  IF UseMemoryStore
           THEN IF MemHas(mem, user_id)
                  THEN /\ mem' = MemDel(mem, user_id)
                       /\ last' = [call EXCEPT !.ok = TRUE, !.status = StatusOf(TRUE)]
                       /\ UNCHANGED << db, fs >>
                  ELSE /\ last' = [call EXCEPT !.status = StatusOf(FALSE)]
                       /\ UNCHANGED << db, fs, mem >>
           ELSE \E throwsGet, throwsDelete \in Throws :
                  IF ~throwsGet /\ user_id \in DOMAIN fs /\ ~throwsDelete
                    THEN /\ fs' = FsDel(fs, user_id)
                         /\ last' = [call EXCEPT !.ok = TRUE, !.status = StatusOf(TRUE)]
                         /\ UNCHANGED << db, mem >>
                    ELSE /\ last' = [call EXCEPT
                              !.threw = throwsGet \/ (user_id \in DOMAIN fs /\ throwsDelete),
                              !.status = StatusOf(FALSE)]
                         /\ UNCHANGED << db, fs, mem >>
  /\ UNCHANGED << now, nextId, pend, sessions, states, chat >>

\* list_user_profiles(limit, offset); throws: the backend query raises
ListResult(limit, offset, throws) ==
  IF UseMemoryStore THEN Summaries(Slice(MemValues(mem), offset, limit))
  ELSE IF throws THEN << >>
  ELSE Summaries(Slice(OrderByCreatedAt(FsDocs(fs)), offset, limit))

\* GET /users?limit=&offset= -> list_user_profiles(limit, offset)
ListUserProfiles(limit, offset) ==
  /\ \E throws \in Throws :
       last' = [NoCall EXCEPT !.op = "list", !.limit = limit, !.offset = offset,
                              !.page = ListResult(limit, offset, throws),
                              !.backend = ~UseMemoryStore,
                              !.threw = ~UseMemoryStore /\ throws,
                              !.status = 200]
  /\ UNCHANGED << db, fs, mem, now, nextId, pend, sessions, states, chat >>

\* variant: the touch refreshes updated_at along with last_active
TouchResultAlsoUpdated(user_id, t, throws) ==
  LET update_data == [last_active |-> Some(t), updated_at |-> t]
  IN  IF UseMemoryStore
        THEN IF MemHas(mem, user_id)
               THEN [ok |-> TRUE, fs |-> fs,
                     mem |-> MemSet(mem, user_id,
                                    DictUpdate(MemGet(mem, user_id)[1], update_data))]
               ELSE [ok |-> FALSE, fs |-> fs, mem |-> mem]
        ELSE IF throws \/ user_id \notin DOMAIN fs
               THEN [ok |-> FALSE, fs |-> fs, mem |-> mem]
               ELSE [ok |-> TRUE, mem |-> mem,
                     fs |-> FsSet(fs, user_id, DictUpdate(fs[user_id], update_data))]

\* update_last_active(user_id) reading the clock as t; throws: the backend
\* update raises (as it does by itself for a missing document)
TouchResult(user_id, t, throws) ==
  LET update_data == [last_active |-> Some(t)]
  IN  IF UseMemoryStore
        THEN IF MemHas(mem, user_id)
               THEN [ok |-> TRUE, fs |-> fs,
                     mem |-> MemSet(mem, user_id,
                                    DictUpdate(MemGet(mem, user_id)[1], update_data))]
               ELSE [ok |-> FALSE, fs |-> fs, mem |-> mem]
        ELSE IF throws \/ user_id \notin DOMAIN fs
               THEN [ok |-> FALSE, fs |-> fs, mem |-> mem]
               ELSE [ok |-> TRUE, mem |-> mem,
                     fs |-> FsSet(fs, user_id, DictUpdate(fs[user_id], update_data))]

\* update_last_active(user_id)
UpdateLastActive(user_id) ==
  /\ now < MaxClock
  /\ now' = now + 1
  /\ \E throws \in Throws :
       LET r == TouchResult(user_id, now + 1, throws)
       IN  /\ fs' = r.fs
           /\ mem' = r.mem
           /\ last' = [NoCall EXCEPT !.op = "touch", !.uid = user_id,
                                     !.ok = r.ok,
                                     !.existed = IsSet(Visible(user_id)),
                                     !.backend = ~UseMemoryStore,
                                     !.threw = ~UseMemoryStore /\ throws]
  /\ UNCHANGED << db, nextId, pend, sessions, states, chat >>

\* ------------------------------------------------------ the context service
\* _create_accessibility_summary(profile)
CreateAccessibilitySummary(profile) ==
  LET accessibility == profile.accessibility_profile
  IN  [has_mobility_needs |-> Truthy(accessibility.mobility_needs),
       has_sensory_needs |-> Truthy(accessibility.sensory_needs),
       has_cognitive_needs |-> Truthy(accessibility.cognitive_needs),
       mobility_needs |-> accessibility.mobility_needs,
       sensory_needs |-> accessibility.sensory_needs,
       cognitive_needs |-> accessibility.cognitive_needs,
       assistance_preferences |-> accessibility.assistance_preferences,
       mobility_aids |-> accessibility.mobility_aids,
       barrier_concerns |-> accessibility.barrier_concerns]

\* _create_travel_preferences_summary(profile)
CreateTravelPreferencesSummary(profile) ==
  LET interests == profile.travel_interests
  IN  [preferred_destinations |-> interests.preferred_destinations,
       travel_styles |-> interests.travel_style,
       accommodation_preferences |-> interests.accommodation_preferences,
       activity_interests |-> interests.activity_interests]

\* A str is the sequence of its pieces: the literal parts of an f-string and
\* the values formatted into it.
\* ', '.join(list)
RECURSIVE JoinComma(_)
JoinComma(list) ==
  IF Len(list) <= 1 THEN list
  ELSE << Head(list), ", " >> \o JoinComma(Tail(list))

\* ', '.join(list) if list else alt
JoinOr(list, alt) == IF Truthy(list) THEN JoinComma(list) ELSE << alt >>

\* base_context of _generate_personalized_instructions
BaseContext(profile) ==
  << "You are helping ", profile.basic_info.name, " traveler from ",
     profile.basic_info.home_location, profile.basic_info.nationality,
     "COMMUNICATION STYLE: ", profile.preferences.communication_style >>

\* variant: the accessibility block lists the sensory and cognitive needs alone
AccessibilityContextWithoutMobility(profile) ==
  LET accessibility == profile.accessibility_profile
  IN  << "ACCESSIBILITY NEEDS:", "- Sensory: " >>
        \o JoinOr(accessibility.sensory_needs, "None specified")
        \o << "- Cognitive: " >>
        \o JoinOr(accessibility.cognitive_needs, "None specified")

\* variant: the accessibility block is given for any accessibility data
AccessibilityContextOnAnyData(profile) ==
  LET accessibility == profile.accessibility_profile
  IN  IF \/ Truthy(accessibility.mobility_needs)
         \/ Truthy(accessibility.sensory_needs)
         \/ Truthy(accessibility.cognitive_needs)
         \/ Truthy(accessibility.mobility_aids)
         \/ Truthy(accessibility.barrier_concerns)
         \/ Truthy(accessibility.assistance_preferences)
        THEN << "ACCESSIBILITY NEEDS:", "- Mobility: " >>
               \o JoinOr(accessibility.mobility_needs, "None specified")
               \o << "- Sensory: " >>
               \o JoinOr(accessibility.sensory_needs, "None specified")
               \o << "- Cognitive: " >>
               \o JoinOr(accessibility.cognitive_needs, "None specified")
               \o << "- Mobility Aids: " >>
               \o JoinOr(accessibility.mobility_aids, "None")
               \o << "- Priority Concerns: " >>
               \o JoinOr(accessibility.barrier_concerns, "None specified")
               \o << "ASSISTANCE PREFERENCES: " >>
               \o accessibility.assistance_preferences
        ELSE << >>

\* accessibility_context: empty unless a mobility, sensory or cognitive
\* need is given
AccessibilityContext(profile) ==
  LET accessibility == profile.accessibility_profile
  IN  IF \/ Truthy(accessibility.mobility_needs)
         \/ Truthy(accessibility.sensory_needs)
         \/ Truthy(accessibility.cognitive_needs)
        THEN << "ACCESSIBILITY NEEDS:", "- Mobility: " >>
               \o JoinOr(accessibility.mobility_needs, "None specified")
               \o << "- Sensory: " >>
               \o JoinOr(accessibility.sensory_needs, "None specified")
               \o << "- Cognitive: " >>
               \o JoinOr(accessibility.cognitive_needs, "None specified")
               \o << "- Mobility Aids: " >>
               \o JoinOr(accessibility.mobility_aids, "None")
               \o << "- Priority Concerns: " >>
               \o JoinOr(accessibility.barrier_concerns, "None specified")
               \o << "ASSISTANCE PREFERENCES: " >>
               \o accessibility.assistance_preferences
        ELSE << >>

\* travel_context
TravelContext(profile) ==
  LET interests == profile.travel_interests
  IN  << "TRAVEL PREFERENCES:", "- Destinations: " >>
        \o JoinOr(interests.preferred_destinations, "Open to suggestions")
        \o << "- Travel Style: " >>
        \o JoinOr(interests.travel_style, "Flexible")
        \o << "- Activities: " >>
        \o JoinOr(interests.activity_interests, "Open to suggestions")

\* _generate_personalized_instructions(profile): agent name -> instruction
GeneratePersonalizedInstructions(profile) ==
  LET full_context ==
        BaseContext(profile) \o AccessibilityContext(profile) \o TravelContext(profile)
  IN  [root_agent |-> full_context \o << "Route requests" >>,
       inspiration_agent |-> full_context \o << "Focus on destinations" >>,
       planning_agent |-> full_context \o << "Prioritize accessible flights" >>,
       booking_agent |-> full_context \o << "Automatically include" >>,
       accessibility_research_agent |-> full_context \o << "Focus your research" >>,
       mobility_preparation_agent |-> full_context \o << "Focus on the user's" >>,
       transit_support_agent |-> full_context \o << "Arrange assistance" >>,
       barrier_navigation_agent |-> full_context \o << "Prioritize solutions" >>]

\* _create_personalized_context(profile)
CreatePersonalizedContext(profile) ==
  [user_info |-> [name |-> profile.basic_info.name,
                  nationality |-> profile.basic_info.nationality,
                  home_location |-> profile.basic_info.home_location],
   accessibility_summary |-> CreateAccessibilitySummary(profile),
   travel_preferences |-> CreateTravelPreferencesSummary(profile),
   communication_style |-> profile.preferences.communication_style,
   personalized_instructions |-> GeneratePersonalizedInstructions(profile)]

\* session.state.get(key)
StateGet(state, key) == IF key \in DOMAIN state THEN Some(state[key]) ELSE None

\* variant: a profile that is not found is reported with an exception
InjectResultRaising(state, user_id, throwsGet, throwsTouch) ==
  LET user_profile == GetResult(user_id, throwsGet)
      touched == TouchResult(user_id, now + 1, throwsTouch)
  IN  IF ~IsSet(user_profile)
        THEN [ok |-> FALSE, raised |-> TRUE, state |-> state,
              fs |-> fs, mem |-> mem, now |-> now]
        ELSE [ok |-> TRUE, raised |-> FALSE,
              state |-> DictUpdate(state,
                          [user_profile |-> user_profile[1],
                           user_id |-> user_id,
                           context_injected |-> TRUE,
                           context_timestamp |-> now + 2,
                           personalized_context |->
                             CreatePersonalizedContext(user_profile[1])]),
              fs |-> touched.fs, mem |-> touched.mem, now |-> now + 2]

\* variant: the session keys naming the user are written before the profile
\* is looked up
InjectResultWritingFirst(state, user_id, throwsGet, throwsTouch) ==
  [ok |-> IsSet(GetResult(user_id, throwsGet)), raised |-> FALSE,
   state |-> DictUpdate(state, [user_id |-> user_id, context_injected |-> TRUE]),
   fs |-> fs, mem |-> mem, now |-> now]

\* variant: building the personalized context raises after the four other
\* keys are written
InjectResultFailingMidway(state, user_id, throwsGet, throwsTouch) ==
  LET user_profile == GetResult(user_id, throwsGet)
      touched == TouchResult(user_id, now + 1, throwsTouch)
  IN  IF ~IsSet(user_profile)
        THEN [ok |-> FALSE, raised |-> FALSE, state |-> state,
              fs |-> fs, mem |-> mem, now |-> now]
        ELSE [ok |-> FALSE, raised |-> FALSE,
              state |-> DictUpdate(state,
                          [user_profile |-> user_profile[1],
                           user_id |-> user_id,
                           context_injected |-> TRUE,
                           context_timestamp |-> now + 2]),
              fs |-> touched.fs, mem |-> touched.mem, now |-> now + 2]

\* inject_user_context(session, user_id) on a session whose state is state:
\* the result, the session state and the store it leaves, and the clock
InjectResult(state, user_id, throwsGet, throwsTouch) ==
  LET user_profile == GetResult(user_id, throwsGet)
      touched == TouchResult(user_id, now + 1, throwsTouch)
  IN  IF ~IsSet(user_profile)
        THEN [ok |-> FALSE, raised |-> FALSE, state |-> state,
              fs |-> fs, mem |-> mem, now |-> now]
        ELSE [ok |-> TRUE, raised |-> FALSE,
              state |-> DictUpdate(state,
                          [user_profile |-> user_profile[1],
                           user_id |-> user_id,
                           context_injected |-> TRUE,
                           context_timestamp |-> now + 2,
                           personalized_context |->
                             CreatePersonalizedContext(user_profile[1])]),
              fs |-> touched.fs, mem |-> touched.mem, now |-> now + 2]

\* variant: the keys are returned without the context_injected test
GetUserContextUnchecked(state) ==
  Some([user_profile |-> StateGet(state, "user_profile"),
        user_id |-> StateGet(state, "user_id"),
        personalized_context |-> StateGet(state, "personalized_context"),
        context_timestamp |-> StateGet(state, "context_timestamp")])

\* get_user_context_from_session(session)
GetUserContextFromSession(state) ==
  IF StateGet(state, "context_injected") = Some(TRUE)
    THEN Some([user_profile |-> StateGet(state, "user_profile"),
               user_id |-> StateGet(state, "user_id"),
               personalized_context |-> StateGet(state, "personalized_context"),
               context_timestamp |-> StateGet(state, "context_timestamp")])
    ELSE None

\* variant: sessions.setdefault(session_id, session)
RegisterSessionIfAbsent(reg, session_id, session) ==
  [x \in DOMAIN reg \cup {session_id} |->
     IF x \in DOMAIN reg THEN reg[x] ELSE session]

\* sessions[session_id] = session
RegisterSession(reg, session_id, session) ==
  [x \in DOMAIN reg \cup {session_id} |-> IF x = session_id THEN session ELSE reg[x]]

\* session_service.create_session(state={}): a new session object, the
\* next in the heap of session states, with an empty state
CreatedSession(heap) == Len(heap) + 1

HeapWithCreated(heap) == Append(heap, << >>)

\* context_service.inject_user_context(session, user_id) on a registered session
InjectUserContext(session_id, user_id) ==
  /\ session_id \in DOMAIN sessions
  /\ \E throwsGet \in Throws, throwsTouch \in Throws :
       LET session == sessions[session_id]
           r == InjectResult(states[session], user_id, throwsGet, throwsTouch)
       IN  /\ r.now <= MaxClock
           /\ now' = r.now
           /\ fs' = r.fs
           /\ mem' = r.mem
           /\ states' = [states EXCEPT ![session] = r.state]
           /\ last' = [NoCall EXCEPT !.op = "inject", !.uid = user_id,
                                     !.sid = session_id,
                                     !.session = session,
                                     !.ok = r.ok,
                                     !.raised = r.raised,
                                     !.found = IsSet(GetResult(user_id, throwsGet)),
                                     !.existed = IsSet(Visible(user_id)),
                                     !.backend = ~UseMemoryStore,
                                     !.threw = ~UseMemoryStore /\ (throwsGet \/ throwsTouch)]
  /\ UNCHANGED << db, nextId, pend, sessions, chat >>

\* context_service.get_user_context_from_session(session)
GetUserContext(session_id) ==
  /\ session_id \in DOMAIN sessions
  /\ last' = [NoCall EXCEPT !.op = "get_context", !.sid = session_id,
                            !.session = sessions[session_id],
                            !.context =
                              GetUserContextFromSession(states[sessions[session_id]])]
  /\ UNCHANGED << db, fs, mem, now, nextId, pend, sessions, states, chat >>

\* the preferences dicts passed to update_learned_preferences
LearnedPreferences ==
  { [seat |-> "aisle"], [seat |-> "window", meal |-> "vegan"] }

\* variant: the merged preferences are also kept in the session's copy of
\* the profile
LearnResultIntoProfile(state, preferences) ==
  IF ~IsSet(StateGet(state, "user_id"))
    THEN [ok |-> FALSE, state |-> state]
    ELSE LET current_learned ==
               OrDefault(StateGet(state, "learned_preferences"), << >>)
             merged == DictUpdate(current_learned, preferences)
         IN  [ok |-> TRUE,
              state |-> DictUpdate(state,
                          [learned_preferences |-> merged,
                           user_profile |->
                             DictUpdate(state.user_profile,
                                        [learned_preferences |-> merged])])]

\* update_learned_preferences(session, preferences) on a session whose
\* state is state: the result and the session state it leaves
LearnResult(state, preferences) ==
  IF ~IsSet(StateGet(state, "user_id"))
    THEN [ok |-> FALSE, state |-> state]
    ELSE LET current_learned ==
               OrDefault(StateGet(state, "learned_preferences"), << >>)
         IN  [ok |-> TRUE,
              state |-> DictUpdate(state,
                          [learned_preferences |->
                             DictUpdate(current_learned, preferences)])]

\* variant: the merged preferences are persisted into the stored profile
UpdateLearnedPreferencesPersisting(session_id, preferences) ==
  /\ session_id \in DOMAIN sessions
  /\ LET session == sessions[session_id]
         r == LearnResult(states[session], preferences)
         user_id == OrDefault(StateGet(states[session], "user_id"), 0)
         learned == [learned_preferences |-> r.state.learned_preferences]
     IN  /\ states' = [states EXCEPT ![session] = r.state]
         /\ mem' = IF r.ok /\ MemHas(mem, user_id)
                     THEN MemSet(mem, user_id,
                                 DictUpdate(MemGet(mem, user_id)[1], learned))
                     ELSE mem
         /\ fs' = IF r.ok /\ user_id \in DOMAIN fs
                    THEN FsSet(fs, user_id, DictUpdate(fs[user_id], learned))
                    ELSE fs
         /\ last' = [NoCall EXCEPT !.op = "learn", !.sid = session_id,
                                   !.session = session,
                                   !.ok = r.ok]
  /\ UNCHANGED << db, now, nextId, pend, sessions, chat >>

\* context_service.update_learned_preferences(session, preferences)
UpdateLearnedPreferences(session_id, preferences) ==
  /\ session_id \in DOMAIN sessions
  /\ LET session == sessions[session_id]
         r == LearnResult(states[session], preferences)
     IN  /\ states' = [states EXCEPT ![session] = r.state]
         /\ last' = [NoCall EXCEPT !.op = "learn", !.sid = session_id,
                                   !.session = session,
                                   !.ok = r.ok]
  /\ UNCHANGED << db, fs, mem, now, nextId, pend, sessions, chat >>

\* POST /chat with a session_id not yet in sessions, up to the registration
\* of the new session
CreateSession(session_id) ==
  /\ session_id \notin DOMAIN sessions
  /\ Len(states) < MaxObjects
  /\ sessions' = RegisterSession(sessions, session_id, CreatedSession(states))
  /\ states' = HeapWithCreated(states)
  /\ last' = [NoCall EXCEPT !.op = "create_session", !.sid = session_id,
                            !.session = CreatedSession(states)]
  /\ UNCHANGED << db, fs, mem, now, nextId, pend, chat >>

\* ---------------------------------------------------- the /chat endpoint
\* message.user_id: Optional[str]
ChatUserIds == Opt(UserIds)

\* the fields the response model ChatResponse declares
ChatResponseFields == {"response", "session_id", "events"}

\* ChatResponse(**response_data): a pydantic model keeps its declared fields
\* and ignores every other keyword
ChatResponse(response_data) ==
  [k \in DOMAIN response_data \cap ChatResponseFields |-> response_data[k]]

\* response_data["user_context"] built from the session's user context
UserContextEntry(user_id, user_context) ==
  LET personalized == user_context.personalized_context
      summary == IF IsSet(personalized) THEN Some(personalized[1].accessibility_summary)
                 ELSE None
  IN  [user_id |-> user_id,
       context_injected |-> TRUE,
       user_name |-> IF IsSet(personalized) THEN Some(personalized[1].user_info.name)
                     ELSE None,
       accessibility_needs |->
         /\ IsSet(summary)
         /\ summary[1].has_mobility_needs \/ summary[1].has_sensory_needs]

\* response_data of chat once the agent run has completed
ResponseData(session_id, user_id, context_injected, session_state) ==
  LET base == [response |-> "reply", session_id |-> session_id, events |-> << "event" >>]
      user_context == GetUserContextFromSession(session_state)
  IN  IF context_injected /\ IsSet(user_context)
        THEN base @@ ("user_context" :> UserContextEntry(user_id[1], user_context[1]))
        ELSE base

\* the HTTP status of chat: 500 out of the handler's except, else 200
ChatStatus(raised) == IF raised THEN 500 ELSE 200

\* chat from `session = sessions[message.session_id]` to the await of the
\* agent run, on the registry reg and the session states heap
ChatInject(w, session_id, user_id, reg, heap) ==
  LET session == reg[session_id]
      call == [NoCall EXCEPT !.op = "chat_start", !.sid = session_id,
                             !.session = session,
                             !.replaced = /\ session_id \in DOMAIN sessions
                                          /\ sessions[session_id] # session,
                             !.uid = IF IsSet(user_id) THEN user_id[1] ELSE 0]
      running == [pc |-> "run", session_id |-> session_id, user_id |-> user_id,
                  session |-> session, context_injected |-> FALSE]
  IN  /\ sessions' = reg
      /\ IF ~IsSet(user_id)
           THEN /\ states' = heap
                /\ chat' = [chat EXCEPT ![w] = running]
                /\ last' = call
                /\ UNCHANGED << fs, mem, now >>
           ELSE \E throwsGet \in Throws, throwsTouch \in Throws :
                  LET r == InjectResult(heap[session], user_id[1], throwsGet, throwsTouch)
                  IN  /\ r.now <= MaxClock
                      /\ now' = r.now
                      /\ fs' = r.fs
                      /\ mem' = r.mem
                      /\ states' = [heap EXCEPT ![session] = r.state]
                      /\ chat' = [chat EXCEPT ![w] =
                                    IF r.raised THEN ChatIdle
                                    ELSE [running EXCEPT !.context_injected = r.ok]]
                      /\ last' = [call EXCEPT
                           !.op = IF r.raised THEN "chat" ELSE "chat_start",
                           !.status = IF r.raised THEN ChatStatus(TRUE) ELSE 0,
                           !.injected = r.ok,
                           !.raised = r.raised,
                           !.found = IsSet(GetResult(user_id[1], throwsGet)),
                           !.existed = IsSet(Visible(user_id[1])),
                           !.backend = ~UseMemoryStore,
                           !.threw = ~UseMemoryStore /\ (throwsGet \/ throwsTouch)]
      /\ UNCHANGED << db, nextId, pend >>

\* POST /chat up to the await of the agent run, the session service
\* returning the new session without suspending the handler
ChatStart(w, session_id, user_id) ==
  /\ chat[w].pc = "idle"
  /\ IF session_id \notin DOMAIN sessions
       THEN /\ Len(states) < MaxObjects
            /\ ChatInject(w, session_id, user_id,
                          RegisterSession(sessions, session_id, CreatedSession(states)),
                          HeapWithCreated(states))
       ELSE ChatInject(w, session_id, user_id, sessions, states)

\* variant: create_session is called without the registry test
ChatCheckAlwaysCreating(w, session_id, user_id) ==
  /\ chat[w].pc = "idle"
  /\ chat' = [chat EXCEPT ![w] =
               [ChatIdle EXCEPT !.pc = "create", !.session_id = session_id,
                                !.user_id = user_id]]
  /\ last' = [NoCall EXCEPT !.op = "chat_check", !.sid = session_id]
  /\ UNCHANGED << db, fs, mem, now, nextId, pend, sessions, states >>

\* POST /chat up to its first await: the handler is suspended in
\* session_service.create_session when the id is not registered
ChatCheck(w, session_id, user_id) ==
  /\ chat[w].pc = "idle"
  /\ IF session_id \notin DOMAIN sessions
       THEN /\ chat' = [chat EXCEPT ![w] =
                         [ChatIdle EXCEPT !.pc = "create", !.session_id = session_id,
                                          !.user_id = user_id]]
            /\ last' = [NoCall EXCEPT !.op = "chat_check", !.sid = session_id]
            /\ UNCHANGED << db, fs, mem, now, nextId, pend, sessions, states >>
       ELSE ChatInject(w, session_id, user_id, sessions, states)

\* create_session returns: the new session is assigned to the registry and
\* the handler goes on to the await of the agent run
ChatCreated(w) ==
  /\ chat[w].pc = "create"
  /\ Len(states) < MaxObjects
  /\ ChatInject(w, chat[w].session_id, chat[w].user_id,
                RegisterSession(sessions, chat[w].session_id, CreatedSession(states)),
                HeapWithCreated(states))

\* the agent run ends, completed or with an exception, and chat answers
ChatEnd(w) ==
  /\ chat[w].pc = "run"
  /\ \E completed \in BOOLEAN :
       last' = [NoCall EXCEPT
                  !.op = "chat",
                  !.sid = chat[w].session_id,
                  !.uid = IF IsSet(chat[w].user_id) THEN chat[w].user_id[1] ELSE 0,
                  !.session = chat[w].session,
                  !.injected = chat[w].context_injected,
                  !.completed = completed,
                  !.status = ChatStatus(~completed),
                  !.body = IF completed
                             THEN Some(ChatResponse(ResponseData(
                                         chat[w].session_id, chat[w].user_id,
                                         chat[w].context_injected,
                                         states[chat[w].session])))
                             ELSE None]
  /\ chat' = [chat EXCEPT ![w] = ChatIdle]
  /\ UNCHANGED << db, fs, mem, now, nextId, pend, sessions, states >>

\* variant: the entry is left in place
UnregisterNothing(reg, session_id) == reg

\* `del sessions[session_id]`
Unregister(reg, session_id) == [x \in DOMAIN reg \ {session_id} |-> reg[x]]

\* DELETE /sessions/{session_id}
DeleteSession(session_id) ==
  /\ IF session_id \in DOMAIN sessions
       THEN /\ sessions' = Unregister(sessions, session_id)
            /\ last' = [NoCall EXCEPT !.op = "delete_session", !.sid = session_id,
                                      !.existed = TRUE, !.ok = TRUE,
                                      !.status = StatusOf(TRUE)]
       ELSE /\ UNCHANGED sessions
            /\ last' = [NoCall EXCEPT !.op = "delete_session", !.sid = session_id,
                                      !.status = StatusOf(FALSE)]
  /\ UNCHANGED << db, fs, mem, now, nextId, pend, states, chat >>

\* ----------------------------------------------------------- request bodies
\* A JSON object is the function from the keys it carries to their values.
\* The objects that carry any of the keys of values, each with one of the
\* values listed for it
RECURSIVE JsonObjects(_)
JsonObjects(values) ==
  IF DOMAIN values = {} THEN { << >> }
  ELSE LET key == CHOOSE k \in DOMAIN values : TRUE
           rest == JsonObjects([k \in DOMAIN values \ {key} |-> values[k]])
       IN  rest \cup { (key :> v) @@ o : v \in values[key], o \in rest }

\* pydantic BaseModel(**body): a field the body omits takes its default
ModelValidate(default, body) ==
  [f \in DOMAIN default |-> IF f \in DOMAIN body THEN body[f] ELSE default[f]]

\* TravelInterests(**body)
TravelInterests(body) == ModelValidate(DefaultTravelInterests, body)

\* AccessibilityProfile(**body)
AccessibilityProfile(body) == ModelValidate(DefaultAccessibilityProfile, body)

\* CreateUserProfileRequest(**body) of a body that carries basic_info
CreateUserProfileRequest(body) ==
  [basic_info |-> body.basic_info,
   travel_interests |->
     IF "travel_interests" \in DOMAIN body
       THEN Some(TravelInterests(body.travel_interests)) ELSE None,
   accessibility_profile |->
     IF "accessibility_profile" \in DOMAIN body
       THEN Some(AccessibilityProfile(body.accessibility_profile)) ELSE None,
   preferences |-> None]

\* UpdateUserProfileRequest(**body)
UpdateUserProfileRequest(body) ==
  [basic_info |-> None,
   travel_interests |->
     IF "travel_interests" \in DOMAIN body
       THEN Some(TravelInterests(body.travel_interests)) ELSE None,
   accessibility_profile |->
     IF "accessibility_profile" \in DOMAIN body
       THEN Some(AccessibilityProfile(body.accessibility_profile)) ELSE None,
   preferences |-> None]

\* POST /users with a JSON body: FastAPI validates the body against
\* CreateUserProfileRequest before the handler runs and answers 422 when the
\* required basic_info is missing; otherwise the handler calls create
PostUsers(body) ==
  IF "basic_info" \in DOMAIN body
    THEN CreateUserProfile(CreateUserProfileRequest(body))
    ELSE /\ last' = [NoCall EXCEPT !.op = "create", !.status = 422]
         /\ UNCHANGED << db, fs, mem, now, nextId, pend, sessions, states, chat >>

\* PUT /users/{user_id} with a JSON body
PutUser(user_id, body) == UpdateUserProfile(user_id, UpdateUserProfileRequest(body))

\* travel_interests objects: any of three lists given, an entry possibly
\* given twice
TravelBodies ==
  JsonObjects([preferred_destinations |-> { <<"Paris">> },
               activity_interests |-> { <<"museums">>, <<"museums", "museums">> },
               accommodation_preferences |-> { <<"accessible">> }])

\* accessibility_profile objects: any of the three need lists, the aids, the
\* barrier concerns and the assistance preferences given
AccessibilityBodies ==
  JsonObjects([mobility_needs |-> { <<"step_free_access">> },
               sensory_needs |-> { <<"quiet_spaces">> },
               cognitive_needs |-> { <<"quiet_spaces">> },
               mobility_aids |-> { <<"wheelchair">> },
               barrier_concerns |-> { <<"stairs">> },
               assistance_preferences |-> { <<"airport: wheelchair assistance">> }])

\* the bodies sent to POST /users: with basic_info and at most one of the
\* two other sections, or without basic_info
CreateBodies ==
  LET basic == [basic_info |-> [name |-> "A", email |-> "a@b.com",
                                nationality |-> "US", home_location |-> "X"]]
  IN  { basic }
        \cup { [travel_interests |-> t] @@ basic : t \in TravelBodies }
        \cup { [accessibility_profile |-> a] @@ basic : a \in AccessibilityBodies }
        \cup { << >>, [travel_interests |-> [preferred_destinations |-> <<"Paris">>]] }

\* the bodies sent to PUT /users/{user_id}: one section, with any of its
\* lists left out
UpdateBodies ==
  { [travel_interests |-> t] :
      t \in JsonObjects([preferred_destinations |-> { <<"Paris">> },
                         activity_interests |-> { <<"museums">> }]) }
    \cup { [accessibility_profile |-> a] :
             a \in JsonObjects([mobility_needs |-> { <<"step_free_access">> }]) }

\* ------------------------------------------------------------ specifications
\* The inputs of Spec and RaceSpec: profiles with and without a mobility
\* need, updates of the preferences.
SampleCreateRequests ==
  { r \in CreateUserProfileRequests :
      /\ BasicComplete(r.basic_info)
      /\ r.travel_interests = None
      /\ r.accessibility_profile \in
           {None, Some([DefaultAccessibilityProfile EXCEPT
                          !.mobility_needs = <<"wheelchair_accessible", "step_free_access">>])} }

SampleUpdateRequests ==
  { r \in UpdateUserProfileRequests :
      Present(r) = {"preferences"} /\ r.preferences # Some(DefaultUserPreferences) }

Create == \E request \in SampleCreateRequests : CreateUserProfile(request)

Get == \E user_id \in UserIds : GetUserProfile(user_id)

Update ==
  \E user_id \in UserIds, request \in SampleUpdateRequests :
    UpdateUserProfile(user_id, request)

Delete == \E user_id \in UserIds : DeleteUserProfile(user_id)

List == \E limit \in 1..MaxLimit, offset \in 0..MaxOffset : ListUserProfiles(limit, offset)

Touch == \E user_id \in UserIds : UpdateLastActive(user_id)

NewSession == \E session_id \in SessionIds : CreateSession(session_id)

Inject ==
  \E session_id \in SessionIds, user_id \in UserIds :
    InjectUserContext(session_id, user_id)

GetContext == \E session_id \in SessionIds : GetUserContext(session_id)

\* The service's coroutines never suspend between their own statements (the
\* database client is synchronous), so within one process every call runs
\* to its return before the next one starts.
Next ==
  \/ Create
  \/ Get
  \/ Update
  \/ Delete
  \/ List
  \/ Touch
  \/ NewSession
  \/ Inject
  \/ GetContext

Spec == Init /\ [][Next]_vars

\* The profile service alone, on every request of the value domains.
ProfileCreate == \E request \in CreateUserProfileRequests : CreateUserProfile(request)

ProfileUpdate ==
  \E user_id \in UserIds, request \in UpdateUserProfileRequests :
    UpdateUserProfile(user_id, request)

ProfileNext == ProfileCreate \/ ProfileUpdate \/ Delete \/ Touch

ProfileSpec == Init /\ [][ProfileNext]_vars

\* Calls that do interleave (several processes on one collection, or a
\* get_user_profile that yields): an update is split at its read.
RaceUpdateRequests ==
  { r \in UpdateUserProfileRequests :
      /\ Cardinality(Present(r)) = 1
      /\ r.basic_info = None
      /\ r.travel_interests # Some(DefaultTravelInterests)
      /\ r.accessibility_profile \in {None, Some(DefaultAccessibilityProfile)} }

\* the coroutines are interchangeable: a new update takes the first free one
FreeWorkers == { w \in Workers : pend[w].pc = "idle" }

FirstFree == CHOOSE w \in FreeWorkers : \A v \in FreeWorkers : w <= v

BeginUpdate ==
  /\ FreeWorkers # {}
  /\ \E user_id \in UserIds, request \in RaceUpdateRequests :
       UpdateRead(FirstFree, user_id, request)

FinishUpdate == \E w \in Workers : UpdateWrite(w)

RaceNext == Create \/ BeginUpdate \/ FinishUpdate \/ Delete

RaceSpec == Init /\ [][RaceNext]_vars

\* The chat endpoint: handlers interleave at the await of the agent run.
FreeChats == { w \in Workers : chat[w].pc = "idle" }

FirstFreeChat == CHOOSE w \in FreeChats : \A v \in FreeChats : w <= v

BeginChat ==
  /\ FreeChats # {}
  /\ \E session_id \in SessionIds, user_id \in ChatUserIds :
       ChatStart(FirstFreeChat, session_id, user_id)

EndChat == \E w \in Workers : ChatEnd(w)

RemoveSession == \E session_id \in SessionIds : DeleteSession(session_id)

ChatNext == Create \/ Delete \/ BeginChat \/ EndChat \/ RemoveSession

ChatSpec == Init /\ [][ChatNext]_vars

\* The chat endpoint with a session service whose create_session suspends
\* the handler between the registry test and the registry assignment.
CheckChat ==
  /\ FreeChats # {}
  /\ \E session_id \in SessionIds, user_id \in ChatUserIds :
       ChatCheck(FirstFreeChat, session_id, user_id)

CreatedChat == \E w \in Workers : ChatCreated(w)

SessionRaceNext ==
  Create \/ Delete \/ CheckChat \/ CreatedChat \/ EndChat \/ RemoveSession

SessionRaceSpec == Init /\ [][SessionRaceNext]_vars

\* One profile created from a request body and read back through the list
\* endpoint and the context service.
ViewCreate ==
  \E body \in CreateBodies :
    /\ "basic_info" \in DOMAIN body => nextId = 1
    /\ PostUsers(body)

ViewUpdate == \E user_id \in UserIds, body \in UpdateBodies : PutUser(user_id, body)

ViewNext == ViewCreate \/ ViewUpdate \/ List \/ NewSession \/ Inject \/ GetContext

ViewSpec == Init /\ [][ViewNext]_vars

\* The context service over two named profiles that are updated and deleted
\* while a session holds their context.
\* clock readings a run of ContextSpec has beyond MaxClock
ContextTicks == 3

\* the name the profile with this id is created under
ContextName(user_id) == IF user_id = 1 THEN "A" ELSE "B"

\* the first profile is created for A, the second for B
ContextCreate ==
  /\ nextId <= MaxUsers
  /\ CreateUserProfile([basic_info |-> [name |-> ContextName(nextId),
                                        email |-> "a@b.com",
                                        nationality |-> "US",
                                        home_location |-> "X"],
                        travel_interests |-> None,
                        accessibility_profile |-> None,
                        preferences |-> None])

\* a profile is renamed
ContextUpdate ==
  \E user_id \in UserIds :
    UpdateUserProfile(user_id,
                      [basic_info |-> Some([name |-> "C", email |-> "a@b.com",
                                            nationality |-> "US",
                                            home_location |-> "X"]),
                       travel_interests |-> None,
                       accessibility_profile |-> None,
                       preferences |-> None])

Learn ==
  \E session_id \in SessionIds, preferences \in LearnedPreferences :
    UpdateLearnedPreferences(session_id, preferences)

\* Init with the clock reading start
InitAt(start) ==
  /\ db \in {"firestore", "none"}
  /\ fs = << >>
  /\ mem = << >>
  /\ now = start
  /\ nextId = 1
  /\ pend = [w \in Workers |-> Idle]
  /\ sessions = << >>
  /\ states = << >>
  /\ chat = [w \in Workers |-> ChatIdle]
  /\ last = NoCall

ContextInit == InitAt(0 - ContextTicks)

ContextNext ==
  \/ ContextCreate
  \/ ContextUpdate
  \/ Delete
  \/ NewSession
  \/ Inject
  \/ GetContext
  \/ Learn
  \/ Touch

ContextSpec == ContextInit /\ [][ContextNext]_vars

\* A profile created with travel interests, copied into a session and then
\* updated section by section.
\* clock readings a run of SectionSpec has beyond MaxClock
SectionTicks == 1

SectionCreate ==
  /\ nextId = 1
  /\ \E body \in CreateBodies :
       /\ {"basic_info", "travel_interests"} \subseteq DOMAIN body
       /\ PostUsers(body)

SectionNext == SectionCreate \/ ViewUpdate \/ NewSession \/ Inject

SectionInit == InitAt(0 - SectionTicks)

SectionSpec == SectionInit /\ [][SectionNext]_vars

\* ------------------------------------------------------------------ claims
\* the profiles held by either store
StoredProfiles == FsDocs(fs) \cup { mem[i].v : i \in 1..Len(mem) }

\* C1: after any sequence of create, update, delete and touch_last_active
\* calls, every stored profile has profile_complete true exactly when its
\* basic_info has non-empty name, email, nationality and home_location and
\* one of preferred_destinations, travel_style, activity_interests,
\* mobility_needs, sensory_needs, assistance_preferences is non-empty.
C1_ProfileCompleteIff ==
  \A p \in StoredProfiles :
    p.profile_complete <=>
      /\ p.basic_info.name # ""
      /\ p.basic_info.email # ""
      /\ p.basic_info.nationality # ""
      /\ p.basic_info.home_location # ""
      /\ \/ p.travel_interests.preferred_destinations # << >>
         \/ p.travel_interests.travel_style # << >>
         \/ p.travel_interests.activity_interests # << >>
         \/ p.accessibility_profile.mobility_needs # << >>
         \/ p.accessibility_profile.sensory_needs # << >>
         \/ p.accessibility_profile.assistance_preferences # << >>

\* C1 witness: an update has left a profile with complete basic_info whose
\* only accessibility or interest entry is a cognitive need, flagged incomplete
C1_Witness ==
  \E p \in StoredProfiles :
    /\ p.updated_at > p.created_at
    /\ p.basic_info.home_location # ""
    /\ p.accessibility_profile.cognitive_needs # << >>
    /\ p.travel_interests = DefaultTravelInterests
    /\ ~p.profile_complete

\* C2: an update of an existing profile changes only the sections present in
\* the request, updated_at and profile_complete (the latter only when a
\* completeness-relevant section is present); every other field of the
\* record, user_id, created_at and last_active included, stays as stored.
C2_UpdateFrame ==
  [][\A u \in UserIds :
       (/\ last'.op = "update"
        /\ last'.uid = u
        /\ IsSet(Visible(u))
        /\ IsSet(Visible(u)'))
       => /\ DOMAIN (Visible(u)'[1]) = DOMAIN (Visible(u)[1])
          /\ \A f \in DOMAIN (Visible(u)[1]) :
               f \notin Present(last'.request[1]) \cup {"updated_at", "profile_complete"}
                 => Visible(u)'[1][f] = Visible(u)[1][f]
          /\ Present(last'.request[1]) \subseteq {"preferences"}
               => Visible(u)'[1].profile_complete = Visible(u)[1].profile_complete
     ]_vars

\* C2 witness: an update of the preferences alone has returned a profile that
\* still has its stored travel interests
C2_Witness ==
  /\ last.op = "update"
  /\ last.status = 200
  /\ Present(last.request[1]) = {"preferences"}
  /\ last.profile[1].preferences.communication_style = "brief"
  /\ last.profile[1].travel_interests.preferred_destinations = <<"Paris">>
  /\ last.profile[1].accessibility_profile.mobility_needs = <<"wheelchair_accessible", "step_free_access">>

\* C3: delete of an id with a stored profile returns true and removes exactly
\* that record; a delete of an id without a stored profile (so the repeated
\* delete) returns false and changes nothing; after either, get for the id
\* returns not-found.
C3_IdempotentDelete ==
  [][\A u \in UserIds :
       (last'.op = "delete" /\ last'.uid = u)
       => /\ last'.ok = IsSet(Visible(u))
          /\ ~IsSet(Visible(u)')
          /\ \A throws \in Throws' : GetResult(u, throws)' = None
          /\ \A v \in UserIds \ {u} : Visible(v)' = Visible(v)
          /\ ~IsSet(Visible(u)) => (fs' = fs /\ mem' = mem)
     ]_vars

\* C3 witness: a delete of a stored profile during which the backend raised
\* returned false and the record is still stored
C3_Witness ==
  /\ last.op = "delete"
  /\ last.existed
  /\ last.threw
  /\ ~last.ok
  /\ last.status = 404
  /\ IsSet(Visible(last.uid))

\* C4: an update addressed to an id that has no stored profile when it
\* writes, be it never created or deleted since the update read it, returns
\* not-found (HTTP 404) and leaves both stores as they were.
C4_UpdateNeverUpserts ==
  [][\A u \in UserIds :
       (last'.op = "update" /\ last'.uid = u /\ ~IsSet(Visible(u)))
       => /\ last'.profile = None
          /\ last'.status = 404
          /\ fs' = fs
          /\ mem' = mem
          /\ ~IsSet(Visible(u)')
     ]_vars

\* C4 witness: an update that had read an existing profile found it deleted
\* when it came to write, and answered not-found
C4_Witness ==
  /\ last.op = "update"
  /\ last.found
  /\ ~last.existed
  /\ last.status = 404
  /\ ~IsSet(Visible(last.uid))

\* C5: when the backend write of create raises, create still returns the
\* profile without an error, the service is on the memory store, and get for
\* the returned user_id returns that same profile out of the memory store.
C5_CreateFallbackTransparent ==
  (last.op = "create" /\ last.threw)
  => /\ ~last.raised
     /\ last.status = 200
     /\ IsSet(last.profile)
     /\ last.profile[1].user_id = last.uid
     /\ db = "none"
     /\ MemGet(mem, last.uid) = last.profile
     /\ \A throws \in Throws : GetResult(last.uid, throws) = last.profile

\* C5 witness: a create whose backend write raised, after an earlier create
\* had been written to the backend
C5_Witness ==
  /\ last.op = "create"
  /\ last.threw
  /\ last.uid = 2
  /\ 1 \in DOMAIN fs

\* C6: whenever a backend read or write raises, in any operation, the service
\* is on the memory store afterwards.
C6_AnyThrowFallsBack == last.threw => db = "none"

\* C6 witness: the backend read of a get raised and the service is still on
\* the backend
C6_Witness ==
  /\ last.op = "get"
  /\ last.threw
  /\ db = "firestore"

\* C7: once the service is on the memory store it stays on it, and no later
\* operation reads or writes the backend.
C7_DegradationIrreversible ==
  [][db = "none" => (db' = "none" /\ fs' = fs /\ ~last'.backend)]_vars

\* C7 witness: the service fell back after it had written to the backend, and
\* a later operation has run on the memory store
C7_Witness ==
  /\ db = "none"
  /\ DOMAIN fs # {}
  /\ last.op \in {"get", "update", "delete", "list", "touch", "inject"}
  /\ ~last.backend

\* C8: no operation of the profile service or of the context service raises
\* on a backend exception: create completes on the memory store, get and
\* update return None, delete and touch return false, list returns the empty
\* list, inject returns false when its profile read failed.
C8_NoStorageExceptionEscapes ==
  /\ ~last.raised
  /\ last.threw =>
       /\ last.op \in {"create", "get", "update", "delete", "list", "touch", "inject"}
       /\ last.op = "create" => (IsSet(last.profile) /\ db = "none" /\ last.status = 200)
       /\ last.op \in {"get", "update"} => last.profile = None
       /\ last.op \in {"delete", "touch"} => ~last.ok
       /\ last.op = "list" => last.page = << >>
       /\ (last.op = "inject" /\ ~last.found) => ~last.ok

\* C8 witness: the profile read of an inject raised for a stored profile and
\* inject returned false
C8_Witness ==
  /\ last.op = "inject"
  /\ last.threw
  /\ last.existed
  /\ ~last.found
  /\ ~last.ok
  /\ ~last.raised

\* C9: GET, PUT and DELETE on /users/{user_id} answer 404 only when no profile
\* with that id is stored; a backend exception on a stored profile does not
\* make them answer 404.
C9_NotFoundOnlyWhenAbsent ==
  (last.op \in {"get", "update", "delete"} /\ last.status = 404) => ~last.existed

\* C9 witness: GET of a stored profile answered 404 because the backend read
\* raised
C9_Witness ==
  /\ last.op = "get"
  /\ last.existed
  /\ last.threw
  /\ last.status = 404

\* the ids with a profile in the store in use
VisibleIds == { u \in UserIds : IsSet(Visible(u)) }

\* the 1-based position of u among the stored profiles by creation time
Position(u) ==
  1 + Cardinality({ v \in VisibleIds :
                      Visible(v)[1].created_at < Visible(u)[1].created_at })

\* the id at position n
IdAt(n) == CHOOSE u \in VisibleIds : Position(u) = n

\* how many entries the window (offset, limit) holds
WindowLen(limit, offset) ==
  LET rest == Cardinality(VisibleIds) - offset
  IN  IF rest <= 0 THEN 0 ELSE IF rest < limit THEN rest ELSE limit

\* C10: list(limit, offset) returns the summaries of the stored profiles at
\* positions offset+1 .. offset+limit of the ascending creation-time order, in
\* that order, fewer only when the store ends first.
C10_ListWindow ==
  last.op = "list"
  => /\ Len(last.page) = WindowLen(last.limit, last.offset)
     /\ \A i \in 1..Len(last.page) :
          /\ i <= WindowLen(last.limit, last.offset)
          /\ last.page[i].user_id = IdAt(last.offset + i)
          /\ last.page[i] = CreateProfileSummary(Visible(IdAt(last.offset + i))[1])

\* C10 witness: a list of the first page returned nothing, the backend query
\* having raised, while two profiles are stored
C10_Witness ==
  /\ last.op = "list"
  /\ last.threw
  /\ last.offset = 0
  /\ last.page = << >>
  /\ Cardinality(VisibleIds) = 2

\* the planning_agent instruction of a personalized context holds entry
Mentions(instruction, entry) == \E j \in 1..Len(instruction) : instruction[j] = entry

\* C11: when inject(session, user_id) succeeds, get_context(session) returns
\* a context whose user_profile is the stored profile inject read, whose
\* accessibility_summary.has_mobility_needs is true exactly when that
\* profile's mobility_needs is non-empty, and whose planning_agent
\* instruction contains every entry of mobility_needs.
C11_InjectThenGetContext ==
  [][\A u \in UserIds, o \in SessionObjects :
       (last'.op = "inject" /\ last'.uid = u /\ last'.session = o /\ last'.ok)
       => LET context == GetUserContextFromSession(states'[o])
              needs == Visible(u)[1].accessibility_profile.mobility_needs
          IN  /\ IsSet(Visible(u))
              /\ IsSet(context)
              /\ context[1].user_profile = Visible(u)
              /\ context[1].user_id = Some(u)
              /\ context[1].personalized_context[1].accessibility_summary.has_mobility_needs
                   = (needs # << >>)
              /\ \A i \in 1..Len(needs) :
                   Mentions(context[1].personalized_context[1]
                              .personalized_instructions.planning_agent, needs[i])
     ]_vars

\* C11 witness: get_context has returned the context injected for a profile
\* with two mobility needs
C11_Witness ==
  /\ last.op = "get_context"
  /\ IsSet(last.context)
  /\ last.context[1].user_profile[1].accessibility_profile.mobility_needs
       = <<"wheelchair_accessible", "step_free_access">>
  /\ last.context[1].personalized_context[1].accessibility_summary.has_mobility_needs
  /\ Mentions(last.context[1].personalized_context[1]
                .personalized_instructions.planning_agent, "step_free_access")

\* C12: an inject whose user_id resolves to no profile returns false and
\* leaves every session state as it was, so that get_context on a session
\* without injected context still returns absent.
C12_FailedInjectWritesNothing ==
  [][\A o \in SessionObjects :
       (last'.op = "inject" /\ last'.session = o /\ ~last'.found)
       => /\ ~last'.ok
          /\ states' = states
          /\ sessions' = sessions
          /\ GetUserContextFromSession(states'[o]) = GetUserContextFromSession(states[o])
     ]_vars

\* C12 witness: an inject for an id without a profile has returned false on
\* a session whose context is still absent
C12_Witness ==
  /\ last.op = "inject"
  /\ ~last.existed
  /\ ~last.threw
  /\ ~last.ok
  /\ states[last.session] = << >>
  /\ GetUserContextFromSession(states[last.session]) = None

\* C13 as stated: the contents of the profile store are identical before
\* and after any inject call.
C13_InjectLeavesStoreUnchanged ==
  [][last'.op = "inject" => (fs' = fs /\ mem' = mem)]_vars

\* C13: inject changes nothing in the profile store but the last_active
\* field of the profile it injects, which it refreshes itself through
\* update_last_active; an inject that returns false changes nothing.
C13_InjectTouchesOnlyLastActive ==
  [][\A u \in UserIds :
       (last'.op = "inject" /\ last'.uid = u)
       => /\ db' = db
          /\ ~last'.ok => (fs' = fs /\ mem' = mem)
          /\ \A v \in UserIds \ {u} : Visible(v)' = Visible(v)
          /\ IsSet(Visible(u)') = IsSet(Visible(u))
          /\ IsSet(Visible(u)) =>
               /\ DOMAIN (Visible(u)'[1]) = DOMAIN (Visible(u)[1])
               /\ \A f \in DOMAIN (Visible(u)[1]) \ {"last_active"} :
                    Visible(u)'[1][f] = Visible(u)[1][f]
               /\ Visible(u)'[1].last_active \in {Visible(u)[1].last_active, Some(now + 1)}
     ]_vars

\* C13 witness: a successful inject has set last_active of the stored
\* profile, which the copy it put into the session does not have yet
C13_Witness ==
  /\ last.op = "inject"
  /\ last.ok
  /\ Visible(last.uid)[1].last_active = Some(now - 1)
  /\ states[last.session].user_profile.last_active = None

\* C14: get_context changes neither session state nor the profile store; it
\* returns absent when context_injected is not set in the session state and
\* otherwise the user_profile, user_id, personalized_context and
\* context_timestamp the session state holds.
C14_GetContextPureRead ==
  [][\A o \in SessionObjects :
       (last'.op = "get_context" /\ last'.session = o)
       => /\ UNCHANGED << db, fs, mem, now, nextId, pend, sessions, states, chat >>
          /\ IF "context_injected" \in DOMAIN states[o] /\ states[o].context_injected
               THEN last'.context =
                      Some([user_profile |-> Some(states[o].user_profile),
                            user_id |-> Some(states[o].user_id),
                            personalized_context |-> Some(states[o].personalized_context),
                            context_timestamp |-> Some(states[o].context_timestamp)])
               ELSE last'.context = None
     ]_vars

\* C14 witness: get_context has returned the keys of an injected session
C14_Witness ==
  /\ last.op = "get_context"
  /\ IsSet(last.context)
  /\ last.context[1].user_id = Some(1)
  /\ last.context[1].context_timestamp = Some(now)

\* C14 second case reached: get_context on a session without injected context
C14_AbsentReached ==
  /\ last.op = "get_context"
  /\ last.context = None
  /\ states[last.session] = << >>

\* C15: a chat message whose user_id is given and for which inject returns
\* false still reaches the agent run, and the handler answers 200 when the
\* run completes and 500 only when the run itself fails.
C15_FailedInjectDoesNotAbort ==
  [][(last'.op \in {"chat_start", "chat"} /\ last'.uid # 0 /\ ~last'.injected)
       => IF last'.op = "chat_start"
            THEN \E w \in Workers :
                   /\ chat[w].pc # "run"
                   /\ chat'[w].pc = "run"
                   /\ chat'[w].session_id = last'.sid
                   /\ ~chat'[w].context_injected
            ELSE /\ \E w \in Workers : chat[w].pc = "run" /\ chat'[w].pc = "idle"
                 /\ last'.status = IF last'.completed THEN 200 ELSE 500
                 /\ last'.completed => IsSet(last'.body)
     ]_vars

\* C15 witness: no profile was ever created, a chat message named user 1,
\* and the turn was answered 200
C15_Witness ==
  /\ last.op = "chat"
  /\ last.uid = 1
  /\ ~last.injected
  /\ last.completed
  /\ last.status = 200
  /\ nextId = 1

\* C16: a chat turn for which inject succeeded and whose agent run completed
\* answers 200 with a body that holds response, session_id, events and a
\* user_context entry (context_injected true, the profile's name, whether
\* the user has mobility or sensory needs).
C16_BodyHasUserContext ==
  (last.op = "chat" /\ last.injected /\ last.completed)
  => /\ last.status = 200
     /\ IsSet(last.body)
     /\ {"response", "session_id", "events", "user_context"} \subseteq DOMAIN last.body[1]
     /\ last.body[1]["user_context"].context_injected
     /\ last.body[1]["user_context"].user_id = last.uid

\* C16 witness: a personalized turn was answered 200 with a body of the
\* three declared fields only
C16_Witness ==
  /\ last.op = "chat"
  /\ last.injected
  /\ last.completed
  /\ last.status = 200
  /\ DOMAIN last.body[1] = {"response", "session_id", "events"}

\* C17: a chat handler that passed the not-in-registry test and was suspended
\* in create_session assigns its new session to the registry without a
\* second test: the id then maps to that new object alone, also when another
\* handler registered a session for the same id in the meantime.
C17_NoAtomicCheckAndInsert ==
  [][\A w \in Workers :
       (chat[w].pc = "create" /\ chat'[w].pc # "create")
       => /\ Len(states') = Len(states) + 1
          /\ chat[w].session_id \in DOMAIN sessions'
          /\ sessions'[chat[w].session_id] = Len(states')
          /\ chat'[w].pc = "run" => chat'[w].session = Len(states')
          /\ \A x \in DOMAIN sessions :
               x # chat[w].session_id => sessions'[x] = sessions[x]
     ]_vars

\* C17 witness: two handlers passed the test for session id 1 and each
\* created a session; the registry holds the second object while the first
\* handler still runs on the first
C17_Witness ==
  /\ last.op = "chat_start"
  /\ last.replaced
  /\ last.sid = 1
  /\ sessions[1] = 2
  /\ \E w \in Workers :
       /\ chat[w].pc = "run"
       /\ chat[w].session_id = 1
       /\ chat[w].session = 1

\* C18: an update that read the profile, was overtaken by other writes and
\* then writes to a record that is still stored, is applied without any
\* version check: each section it supplies gets its value, each section it
\* does not supply keeps what the store held just before its write, the
\* sections other updates wrote in the meantime included.
C18_LastWriterWinsPerSection ==
  [][\A u \in UserIds :
       (/\ last'.op = "update"
        /\ last'.uid = u
        /\ last'.found
        /\ ~last'.threw
        /\ IsSet(Visible(u)))
       => /\ last'.status = 200
          /\ IsSet(Visible(u)')
          /\ last'.profile = Visible(u)'
          /\ \A sec \in Sections :
               Visible(u)'[1][sec] =
                 IF sec \in Present(last'.request[1])
                   THEN last'.request[1][sec][1]
                   ELSE Visible(u)[1][sec]
     ]_vars

\* C18 witness: of two interleaved updates of one profile the first wrote
\* travel_interests and the second, which had read the profile before that
\* write, wrote preferences; the record holds both
C18_Witness ==
  /\ last.op = "update"
  /\ last.stale
  /\ last.status = 200
  /\ now = 3
  /\ Present(last.request[1]) = {"preferences"}
  /\ Visible(last.uid)[1].preferences = last.request[1].preferences[1]
  /\ Visible(last.uid)[1].travel_interests.preferred_destinations = <<"Paris">>

\* C19 as stated: a session id enters the registry with the first chat
\* message that names it; while registered it stays mapped to the same
\* session object and every chat message with that id runs on that object;
\* only DELETE /sessions/{id} takes it out, and no other operation removes
\* or replaces it.
C19_RegistryStable ==
  [][\A x \in SessionIds :
       /\ (x \in DOMAIN sessions /\ x \in DOMAIN sessions') => sessions'[x] = sessions[x]
       /\ (x \in DOMAIN sessions /\ x \notin DOMAIN sessions')
            => (last'.op = "delete_session" /\ last'.sid = x)
       /\ (x \notin DOMAIN sessions /\ x \in DOMAIN sessions')
            => (last'.op = "chat_start" /\ last'.sid = x /\ sessions'[x] = Len(states'))
       /\ (last'.op = "chat_start" /\ last'.sid = x)
            => (x \in DOMAIN sessions' /\ last'.session = sessions'[x] /\ ~last'.replaced)
     ]_vars

\* C19: a session id enters the registry through a chat message that names
\* it and leaves it only through DELETE /sessions/{id}; a chat message that
\* finds the id registered runs on the registered object and leaves the
\* registry as it is, as do a turn that ends in a 500, a failed injection
\* and the deletion of a user profile. The registered object is replaced
\* only by a chat message that tested the registry while the id was not
\* registered and was suspended in create_session since (C17).
C19_ReplacedOnlyByRacingFirstMessage ==
  [][/\ \A w \in Workers :
          (chat[w].pc = "idle" /\ chat'[w].pc = "create")
            => chat'[w].session_id \notin DOMAIN sessions
     /\ \A x \in SessionIds :
          /\ (x \in DOMAIN sessions /\ x \in DOMAIN sessions' /\ sessions'[x] # sessions[x])
               => \E w \in Workers :
                    /\ chat[w].pc = "create"
                    /\ chat[w].session_id = x
                    /\ chat'[w].pc # "create"
                    /\ sessions'[x] = Len(states')
          /\ (x \in DOMAIN sessions /\ x \notin DOMAIN sessions')
               => (last'.op = "delete_session" /\ last'.sid = x)
          /\ (x \notin DOMAIN sessions /\ x \in DOMAIN sessions')
               => (last'.op = "chat_start" /\ last'.sid = x /\ sessions'[x] = Len(states'))
          /\ (last'.op = "chat_start" /\ last'.sid = x)
               => (x \in DOMAIN sessions' /\ last'.session = sessions'[x])
          /\ (last'.op = "chat_start" /\ last'.sid = x /\ ~last'.replaced
                /\ x \in DOMAIN sessions)
               => sessions' = sessions
          /\ last'.op \in {"chat", "delete"} => sessions' = sessions
    ]_vars

\* C19 witness: a turn whose injection failed has ended in a 500 and the
\* session is still registered with the object the turn ran on
C19_Witness ==
  /\ last.op = "chat"
  /\ last.status = 500
  /\ ~last.injected
  /\ last.uid # 0
  /\ last.sid \in DOMAIN sessions
  /\ sessions[last.sid] = last.session

\* C20: DELETE /sessions/{id} on a registered id removes it and answers 200;
\* on an id that is not registered it answers 404 and leaves the registry
\* unchanged, so a second delete of the same id answers 404.
C20_DeleteSession ==
  [][\A x \in SessionIds :
       (last'.op = "delete_session" /\ last'.sid = x)
       => /\ last'.status = IF x \in DOMAIN sessions THEN 200 ELSE 404
          /\ x \notin DOMAIN sessions'
          /\ DOMAIN sessions' = DOMAIN sessions \ {x}
          /\ \A y \in DOMAIN sessions' : sessions'[y] = sessions[y]
          /\ UNCHANGED << db, fs, mem, states, chat >>
     ]_vars

\* C20 witness: a session was created and deleted, and the repeated delete
\* has answered 404
C20_Witness ==
  /\ last.op = "delete_session"
  /\ last.status = 404
  /\ Len(states) = 1
  /\ sessions = << >>

\* C21: touch_last_active(user_id) on a stored profile returns true and
\* changes only last_active of that profile (updated_at, profile_complete and
\* every other field and profile stay as they were); on an id that is not
\* stored it returns false, changes nothing and creates no record.
C21_TouchFrame ==
  [][\A u \in UserIds :
       (last'.op = "touch" /\ last'.uid = u)
       => /\ UNCHANGED db
          /\ \A v \in UserIds \ {u} :
               FsGet(fs', v) = FsGet(fs, v) /\ MemGet(mem', v) = MemGet(mem, v)
          /\ IF IsSet(Visible(u))
               THEN /\ last'.ok
                    /\ IsSet(Visible(u)')
                    /\ Visible(u)'[1] =
                         [Visible(u)[1] EXCEPT !.last_active = Some(now')]
               ELSE /\ ~last'.ok
                    /\ fs' = fs
                    /\ mem' = mem
    ]_vars

\* C21 witness: a touch of a stored profile returned false because the
\* backend write raised; the profile is as it was
C21_Witness ==
  /\ last.op = "touch"
  /\ last.existed
  /\ last.threw
  /\ ~last.ok
  /\ IsSet(Visible(last.uid))
  /\ Visible(last.uid)[1].last_active = None

\* C22 (as stated): each summary's accessibility_needs_count is the number of
\* distinct entries across mobility_needs, sensory_needs and cognitive_needs
\* of its profile, and its travel_interests_count the number of distinct
\* entries across preferred_destinations, activity_interests and
\* accommodation_preferences.
C22_CountsDistinctEntries ==
  last.op = "list"
  => \A i \in 1..Len(last.page) :
       LET summary == last.page[i]
           profile == Visible(summary.user_id)[1]
       IN  /\ summary.accessibility_needs_count =
                Cardinality(Entries(profile.accessibility_profile.mobility_needs)
                            \cup Entries(profile.accessibility_profile.sensory_needs)
                            \cup Entries(profile.accessibility_profile.cognitive_needs))
           /\ summary.travel_interests_count =
                Cardinality(Entries(profile.travel_interests.preferred_destinations)
                            \cup Entries(profile.travel_interests.activity_interests)
                            \cup Entries(profile.travel_interests.accommodation_preferences))

\* C22 (amended): each summary's accessibility_needs_count is the total
\* number of entries of mobility_needs, sensory_needs and cognitive_needs of
\* its profile, the sum of the three list lengths, and its
\* travel_interests_count the total number of entries of
\* preferred_destinations, activity_interests and accommodation_preferences;
\* an entry that occurs twice is counted twice.
C22_CountsAllEntries ==
  last.op = "list"
  => \A i \in 1..Len(last.page) :
       LET summary == last.page[i]
           profile == Visible(summary.user_id)[1]
       IN  /\ IsSet(Visible(summary.user_id))
           /\ summary.accessibility_needs_count =
                Len(profile.accessibility_profile.mobility_needs)
                  + Len(profile.accessibility_profile.sensory_needs)
                  + Len(profile.accessibility_profile.cognitive_needs)
           /\ summary.travel_interests_count =
                Len(profile.travel_interests.preferred_destinations)
                  + Len(profile.travel_interests.activity_interests)
                  + Len(profile.travel_interests.accommodation_preferences)

\* C22 witness: a listed profile names quiet_spaces as a sensory and as a
\* cognitive need, and its summary counts two accessibility needs
C22_Witness ==
  /\ last.op = "list"
  /\ Len(last.page) = 1
  /\ last.page[1].accessibility_needs_count = 2
  /\ Visible(last.page[1].user_id)[1].accessibility_profile.mobility_needs = << >>
  /\ Visible(last.page[1].user_id)[1].accessibility_profile.sensory_needs = <<"quiet_spaces">>
  /\ Visible(last.page[1].user_id)[1].accessibility_profile.cognitive_needs = <<"quiet_spaces">>

\* C23: a create that fails (the body has no basic_info, or create raised) is
\* answered with a 4xx status and leaves both stores as they were, with no
\* new or partial record; a create that returns a profile has stored exactly
\* one new record, the returned profile, under the returned user_id, which
\* held no record before.
C23_CreateAllOrNothing ==
  [][last'.op = "create"
     => IF last'.status = 200
          THEN /\ IsSet(last'.profile)
               /\ \A u \in UserIds :
                    last'.profile[1].user_id = u
                    => /\ last'.uid = u
                       /\ ~IsSet(FsGet(fs, u))
                       /\ ~IsSet(MemGet(mem, u))
                       /\ Visible(u)' = last'.profile
                       /\ \/ fs' = FsSet(fs, u, last'.profile[1]) /\ mem' = mem
                          \/ mem' = MemSet(mem, u, last'.profile[1]) /\ fs' = fs
          ELSE /\ last'.status \in 400..499
               /\ last'.profile = None
               /\ fs' = fs
               /\ mem' = mem
               /\ db' = db
    ]_vars

\* C23 witness: a profile is stored, and a later POST /users without
\* basic_info has been answered 422 with the store still holding that one
\* profile
C23_Witness ==
  /\ last.op = "create"
  /\ last.status = 422
  /\ last.profile = None
  /\ Cardinality(StoredProfiles) = 1
  /\ nextId = 2

\* C24: every record is stored under its own user_id; no step changes the
\* user_id or the created_at of a record that stays stored, in particular no
\* update and no touch; and every create returns a user_id that no earlier
\* create returned (the ids handed out only grow, deleted ones included).
C24_IdentityStable ==
  /\ [](/\ \A k \in DOMAIN fs : fs[k].user_id = k
        /\ \A i \in 1..Len(mem) : mem[i].v.user_id = mem[i].k)
  /\ [][/\ \A u \in UserIds :
             /\ (u \in DOMAIN fs /\ u \in DOMAIN fs')
                  => /\ fs'[u].user_id = fs[u].user_id
                     /\ fs'[u].created_at = fs[u].created_at
             /\ (MemHas(mem, u) /\ MemHas(mem', u))
                  => /\ MemGet(mem', u)[1].user_id = MemGet(mem, u)[1].user_id
                     /\ MemGet(mem', u)[1].created_at = MemGet(mem, u)[1].created_at
        /\ (last'.op = "create" /\ IsSet(last'.profile))
             => /\ last'.profile[1].user_id >= nextId
                /\ last'.profile[1].user_id < nextId'
        /\ nextId' >= nextId
       ]_vars

\* C24 witness: the first profile was created, updated and deleted, and the
\* second create has returned a new id; the stored record carries it
C24_Witness ==
  /\ last.op = "create"
  /\ IsSet(last.profile)
  /\ last.profile[1].user_id = 2
  /\ 1 \notin DOMAIN fs
  /\ ~MemHas(mem, 1)
  /\ IsSet(Visible(2))
  /\ Visible(2)[1].user_id = 2
  /\ now = 3

\* C25: in every injected session, the instruction of every agent role
\* contains the accessibility block exactly when the injected profile has a
\* non-empty mobility_needs, sensory_needs or cognitive_needs list; a profile
\* whose accessibility data are mobility_aids, barrier_concerns or
\* assistance_preferences alone gets the block in no role's instruction.
C25_BlockIffNeeds ==
  \A o \in 1..Len(states) :
    "personalized_context" \in DOMAIN states[o]
    => LET accessibility == states[o].user_profile.accessibility_profile
           instructions == states[o].personalized_context.personalized_instructions
       IN  \A agent \in DOMAIN instructions :
             /\ Mentions(instructions[agent], "ACCESSIBILITY NEEDS:")
                  <=> \/ accessibility.mobility_needs # << >>
                      \/ accessibility.sensory_needs # << >>
                      \/ accessibility.cognitive_needs # << >>
             /\ Mentions(instructions[agent], "- Mobility Aids: ")
                  <=> Mentions(instructions[agent], "ACCESSIBILITY NEEDS:")

\* C25 witness: a session was injected with a profile that gives mobility
\* aids, barrier concerns and assistance preferences but no need, and the
\* root agent's instruction has no accessibility block
C25_Witness ==
  /\ Len(states) >= 1
  /\ "personalized_context" \in DOMAIN states[1]
  /\ states[1].user_profile.accessibility_profile.mobility_needs = << >>
  /\ states[1].user_profile.accessibility_profile.sensory_needs = << >>
  /\ states[1].user_profile.accessibility_profile.cognitive_needs = << >>
  /\ states[1].user_profile.accessibility_profile.mobility_aids = <<"wheelchair">>
  /\ states[1].user_profile.accessibility_profile.barrier_concerns = <<"stairs">>
  /\ states[1].user_profile.accessibility_profile.assistance_preferences # << >>
  /\ ~Mentions(states[1].personalized_context.personalized_instructions.root_agent,
               "ACCESSIBILITY NEEDS:")
  /\ ~Mentions(states[1].personalized_context.personalized_instructions.root_agent,
               "wheelchair")

\* C26: in every session state context_injected is true only if
\* user_profile, user_id, context_timestamp and personalized_context are all
\* present and come from one profile: user_id is the user_id of user_profile
\* and personalized_context is the context built from user_profile, so its
\* user_info.name is user_profile's name. An inject that returns false
\* leaves every session state as it was, so it never leaves
\* context_injected set without personalized_context.
C26_InjectedKeysCoherent ==
  /\ [](\A o \in 1..Len(states) :
          ("context_injected" \in DOMAIN states[o] /\ states[o].context_injected)
          => /\ {"user_profile", "user_id", "context_timestamp",
                 "personalized_context"} \subseteq DOMAIN states[o]
             /\ states[o].user_id = states[o].user_profile.user_id
             /\ states[o].personalized_context.user_info.name
                  = states[o].user_profile.basic_info.name
             /\ states[o].personalized_context
                  = CreatePersonalizedContext(states[o].user_profile))
  /\ [][(last'.op = "inject" /\ ~last'.ok) => states' = states]_vars

\* C26 witness: a session injected for the first user was injected again for
\* the second one and holds B's profile, id and context; a further inject for
\* the first user, deleted meanwhile, has failed
C26_Witness ==
  /\ last.op = "inject"
  /\ ~last.ok
  /\ last.uid = 1
  /\ Len(states) = 1
  /\ "context_injected" \in DOMAIN states[1]
  /\ states[1].user_id = 2
  /\ states[1].user_profile.basic_info.name = "B"
  /\ states[1].personalized_context.user_info.name = "B"
  /\ states[1].context_timestamp = now
  /\ now = MaxClock

\* the keys inject writes, and what a session state holds under them
InjectedKeys ==
  {"user_profile", "user_id", "context_injected", "context_timestamp",
   "personalized_context"}

Injected(state) == [k \in DOMAIN state \cap InjectedKeys |-> state[k]]

\* C27: what a session holds under the injected keys changes only in a step
\* that is a successful inject into that session: an update or a delete of
\* the stored profile, a learned-preferences update and a failed inject leave
\* it as it was. An inject for a user the store does not hold (any more)
\* returns false, and get_context keeps returning the session's own copy,
\* whatever has become of the stored profile.
C27_SessionKeepsItsCopy ==
  [][\A o \in SessionObjects :
       o <= Len(states)
       => /\ o <= Len(states')
          /\ ~(last'.op = "inject" /\ last'.ok /\ last'.session = o)
               => Injected(states'[o]) = Injected(states[o])
          /\ (last'.op = "inject" /\ last'.session = o /\ ~last'.existed)
               => ~last'.ok
          /\ (last'.op = "get_context" /\ last'.session = o
                /\ "context_injected" \in DOMAIN states[o])
               => /\ IsSet(last'.context)
                  /\ last'.context[1].user_profile = Some(states[o].user_profile)
                  /\ last'.context[1].personalized_context
                       = Some(states[o].personalized_context)
    ]_vars

\* C27 witness: the session was injected with A's profile, the stored profile
\* was deleted, and get_context has returned A's profile and context
C27_Witness ==
  /\ last.op = "get_context"
  /\ IsSet(last.context)
  /\ last.context[1].user_id = Some(1)
  /\ last.context[1].user_profile = Some(states[1].user_profile)
  /\ states[1].user_profile.basic_info.name = "A"
  /\ 1 \notin DOMAIN fs
  /\ ~MemHas(mem, 1)
  /\ ~IsSet(Visible(1))

\* C28: the memory store is empty as long as the service is on Firestore, and
\* the create whose Firestore write fails leaves in it exactly its own
\* profile. From then on a profile that was written to Firestore before is
\* not visible: get, update and delete of its id answer not found and change
\* nothing, and no list page contains it; the profiles visible are those of
\* the memory store, the failing create's and later ones.
C28_FallbackHidesFirestore ==
  /\ [](db = "firestore" => mem = << >>)
  /\ [][/\ (last'.op = "create" /\ last'.threw)
             => /\ db = "firestore"
                /\ db' = "none"
                /\ IsSet(last'.profile)
                /\ mem' = << [k |-> last'.uid, v |-> last'.profile[1]] >>
        /\ \A u \in UserIds :
             (db = "none" /\ u \in DOMAIN fs)
             => /\ ~MemHas(mem, u)
                /\ ~IsSet(Visible(u))
                /\ (last'.op \in {"get", "update", "delete"} /\ last'.uid = u)
                     => /\ last'.status = 404
                        /\ last'.profile = None
                        /\ UNCHANGED << db, fs, mem >>
                /\ last'.op = "list"
                     => \A i \in 1..Len(last'.page) :
                          /\ last'.page[i].user_id # u
                          /\ MemHas(mem, last'.page[i].user_id)
       ]_vars

\* C28 witness: the first profile is in Firestore, the second create fell
\* back to the memory store, and a list of the first page has returned the
\* second profile alone
C28_Witness ==
  /\ db = "none"
  /\ 1 \in DOMAIN fs
  /\ last.op = "list"
  /\ last.offset = 0
  /\ last.limit = 2
  /\ Len(last.page) = 1
  /\ last.page[1].user_id = 2

\* C29: every stored profile has onboarding_completed false and empty
\* travel_history and learned_preferences, the values create gave them, in
\* every state: no create, update, touch, inject or learned-preferences
\* update writes them in the store. update_learned_preferences leaves the
\* store alone: on a session without user_id it returns false and changes
\* nothing, otherwise it returns true and merges into the session state's
\* learned_preferences, keeping the keys learned before and every other key
\* of the session state.
C29_LearnedStaysInSession ==
  /\ [](\A profile \in StoredProfiles :
          /\ profile.onboarding_completed = FALSE
          /\ profile.travel_history = << >>
          /\ profile.learned_preferences = << >>)
  /\ [][\A o \in SessionObjects :
          (last'.op = "learn" /\ last'.session = o)
          => /\ UNCHANGED << db, fs, mem, now, nextId, sessions >>
             /\ \A p \in 1..Len(states) : p # o => states'[p] = states[p]
             /\ IF "user_id" \in DOMAIN states[o]
                  THEN /\ last'.ok
                       /\ DOMAIN states'[o] = DOMAIN states[o] \cup {"learned_preferences"}
                       /\ \A k \in DOMAIN states[o] \ {"learned_preferences"} :
                            states'[o][k] = states[o][k]
                       /\ states'[o].learned_preferences # << >>
                       /\ "learned_preferences" \in DOMAIN states[o]
                            => DOMAIN states[o].learned_preferences
                                 \subseteq DOMAIN states'[o].learned_preferences
                  ELSE /\ ~last'.ok
                       /\ states' = states
       ]_vars

\* C29 witness: the session of a stored user has learned the seat and the
\* meal preference in two calls, and the stored profile's
\* learned_preferences are still empty
C29_Witness ==
  /\ last.op = "learn"
  /\ last.ok
  /\ states[last.session].learned_preferences = [seat |-> "aisle", meal |-> "vegan"]
  /\ IsSet(Visible(states[last.session].user_id))
  /\ Visible(states[last.session].user_id)[1].learned_preferences = << >>
  /\ Visible(states[last.session].user_id)[1].last_active # None

\* C30: an update that succeeds replaces each section its body supplies as a
\* whole: afterwards every sub-field of the section holds the value the body
\* gave it, or its default when the body left it out, whatever was stored;
\* the sections the body does not supply are as they were; and
\* profile_complete is the completeness of the profile with the replaced
\* sections.
C30_SectionReplacedWholesale ==
  [][\A u \in UserIds, body \in UpdateBodies :
       (/\ last'.op = "update"
        /\ last'.uid = u
        /\ last'.status = 200
        /\ last'.request = Some(UpdateUserProfileRequest(body)))
       => /\ IsSet(Visible(u))
          /\ IsSet(Visible(u)')
          /\ \A s \in DOMAIN body :
               \A f \in DOMAIN SectionDefaults[s] :
                 Visible(u)'[1][s][f] =
                   IF f \in DOMAIN body[s] THEN body[s][f] ELSE SectionDefaults[s][f]
          /\ \A s \in Sections \ DOMAIN body :
               Visible(u)'[1][s] = Visible(u)[1][s]
          /\ Visible(u)'[1].profile_complete
               = IsProfileCompleteFromProfile(Visible(u)'[1])
    ]_vars

\* C30 witness: a complete profile with museums among its activity interests
\* and accessible among its accommodation preferences was copied into a
\* session and then updated with a travel_interests section that gives
\* preferred_destinations alone; the stored activity interests and
\* accommodation preferences are empty
C30_Witness ==
  /\ last.op = "update"
  /\ last.status = 200
  /\ last.uid = 1
  /\ last.request =
       Some(UpdateUserProfileRequest(
              [travel_interests |-> [preferred_destinations |-> <<"Paris">>]]))
  /\ Len(states) = 1
  /\ "user_profile" \in DOMAIN states[1]
  /\ states[1].user_id = 1
  /\ states[1].user_profile.travel_interests.activity_interests = <<"museums">>
  /\ states[1].user_profile.travel_interests.accommodation_preferences = <<"accessible">>
  /\ states[1].context_timestamp < Visible(1)[1].updated_at
  /\ Visible(1)[1].travel_interests.preferred_destinations = <<"Paris">>
  /\ Visible(1)[1].travel_interests.activity_interests = << >>
  /\ Visible(1)[1].travel_interests.accommodation_preferences = << >>

====
